---- MODULE Spec2Model ----
(***************************************************************************)
(* Model of the PlunderAcademy achievements platform:                      *)
(*   - the submit pipeline of the vouchers router (routes/vouchers.ts),    *)
(*     with its validators, external-data loaders and the completion store *)
(*   - the on-chain TrainingRegistry that redeems the signed vouchers.     *)
(*                                                                         *)
(* JavaScript values are modelled as follows.  A string is a sequence of   *)
(* one-character strings, so that trim, toUpperCase and parseInt are       *)
(* computed.  An optional value is a sequence of length 0 (undefined/null) *)
(* or 1.  A score is an exact rational, kept as an integer number of       *)
(* 1/ScoreDen points (the code uses IEEE doubles).                          *)
(***************************************************************************)
EXTENDS Integers, Sequences, FiniteSets, TLC

VARIABLES
    \* ---- API worker (process-wide state and the D1 store)
    completions,        \* training_completions rows, in insertion order
    walletData,         \* wallet_data rows (set of wallet addresses)
    signLog,            \* every signVoucher call made so far, in order
    QUIZ_DATA,          \* module global QUIZ_DATA
    quizDataCache,      \* module global quizDataCache (optional)
    SECRET_ANSWERS,     \* module global SECRET_ANSWERS
    secretAnswersCache, \* module global secretAnswersCache (optional)
    now,                \* Date.now(), ms since the worker started
    last,               \* the run of the submit request handled last
    handled,            \* number of submit requests received so far
    inflight,           \* concurrent handlers: handler id -> its run so far
    \* ---- validators applied to drawn inputs
    vIn,                \* the drawn input
    vOut,               \* what the validator returned for it
    \* ---- TrainingRegistry contract storage
    isIssuer, completed, balances, hasTokenId, walletTokenIds, paused,
    lastCall,           \* the last external call and how it ended
    \* ---- PlunderAcademyTokenFactory contract storage
    totalTokensCreated, userTokens, allTokens,
    factoryNonce,       \* the factory account's nonce, from which CREATE derives addresses
    TokenCreated,       \* the TokenCreated events emitted so far, in order
    factoryCall         \* the last createToken call and how it ended

apiVars == <<completions, walletData, signLog, QUIZ_DATA, quizDataCache,
             SECRET_ANSWERS, secretAnswersCache, now, last, handled, inflight>>
pureVars == <<vIn, vOut>>
regVars == <<isIssuer, completed, balances, hasTokenId, walletTokenIds, paused, lastCall>>
factoryVars == <<totalTokensCreated, userTokens, allTokens, factoryNonce, TokenCreated, factoryCall>>
vars == <<apiVars, pureVars, regVars, factoryVars>>

(***************************************************************************)
(* Bounds of the model                                                     *)
(***************************************************************************)
MaxRequests == 2    \* submit requests handled in one behaviour
MaxItems == 2       \* items in an interactive quiz answer or expected list
MaxCalls == 4       \* registry calls in one behaviour
MaxTicks == 1       \* clock ticks in one behaviour
MaxHandlers == 2    \* submit requests handled concurrently

(***************************************************************************)
(* Optional values and strings                                             *)
(***************************************************************************)
None == <<>>
Some(x) == <<x>>
IsSome(o) == Len(o) > 0
Get(o) == o[1]

\* Math.min
Min(a, b) == IF a <= b THEN a ELSE b

\* String.prototype.toUpperCase, one character
UpperChar(c) ==
    CASE c = "a" -> "A" [] c = "b" -> "B" [] c = "c" -> "C"
      [] c = "f" -> "F" [] c = "s" -> "S" [] c = "x" -> "X"
      [] OTHER -> c

toUpperCase(s) == [i \in 1..Len(s) |-> UpperChar(s[i])]

IsSpace(c) == c \in {" ", "\t", "\n", "\r"}

\* the string as it is, whitespace included
NoTrim(s) == s

RECURSIVE TrimLeft(_)
TrimLeft(s) == IF Len(s) > 0 /\ IsSpace(s[1]) THEN TrimLeft(Tail(s)) ELSE s

RECURSIVE TrimRight(_)
TrimRight(s) ==
    IF Len(s) > 0 /\ IsSpace(s[Len(s)]) THEN TrimRight(SubSeq(s, 1, Len(s) - 1)) ELSE s

\* String.prototype.trim
trim(s) == TrimRight(TrimLeft(s))

DigitVal(c) ==
    CASE c = "0" -> 0 [] c = "1" -> 1 [] c = "2" -> 2 [] c = "3" -> 3 [] c = "4" -> 4
      [] c = "5" -> 5 [] c = "6" -> 6 [] c = "7" -> 7 [] c = "8" -> 8 [] c = "9" -> 9
      [] OTHER -> -1

NaN == -1

RECURSIVE ParseDigits(_, _, _)
ParseDigits(s, acc, seen) ==
    IF Len(s) = 0 \/ DigitVal(s[1]) < 0
    THEN (IF seen THEN acc ELSE NaN)
    ELSE ParseDigits(Tail(s), acc * 10 + DigitVal(s[1]), TRUE)

\* parseInt(s, 10): leading blanks skipped, then the longest digit prefix
parseInt10(s) == ParseDigits(TrimLeft(s), 0, FALSE)

achievementNumberToTaskCode(achievementNumber) == parseInt10(achievementNumber)

(***************************************************************************)
(* Wallet addresses.  An address is [id, form]: id names the 20 bytes,     *)
(* form how the hex digits are written: "lower", "checksum" (EIP-55),      *)
(* "badsum" (mixed case with a wrong checksum), "malformed" (not 40 hex    *)
(* digits after 0x) or "nonstring" (a JSON value that is not a string).    *)
(***************************************************************************)

\* ethers.isAddress: getAddress does not throw
isValidEthereumAddress(address) ==
    /\ IsSome(address)
    /\ Get(address).form \in {"lower", "checksum"}

\* an address kept in the letter case it was given in
keepAddress(address) == address

\* ethers.getAddress: the EIP-55 checksummed form of the same 20 bytes
normalizeAddress(address) == [id |-> address.id, form |-> "checksum"]

\* a.toLowerCase() for an address written as a string
addressToLowerCase(address) ==
    IF address.form \in {"lower", "checksum", "badsum"}
    THEN [id |-> address.id, form |-> "lower"]
    ELSE address

(***************************************************************************)
(* Achievement catalog                                                     *)
(***************************************************************************)
A(a, b, c, d) == <<a, b, c, d>>

ACHIEVEMENT_TYPES ==
    (A("0","0","0","1") :> "quiz") @@ (A("0","0","0","2") :> "quiz") @@
    (A("0","0","0","3") :> "quiz") @@ (A("0","0","0","4") :> "quiz") @@
    (A("0","0","0","5") :> "transaction") @@
    (A("0","0","2","1") :> "quiz") @@ (A("0","0","2","2") :> "quiz") @@
    (A("0","0","2","3") :> "quiz") @@ (A("0","0","2","4") :> "quiz") @@
    (A("0","0","2","5") :> "transaction") @@
    (A("0","0","3","1") :> "quiz") @@ (A("0","0","3","2") :> "quiz") @@
    (A("0","0","3","3") :> "transaction") @@
    (A("0","0","4","1") :> "quiz") @@ (A("0","0","4","2") :> "quiz") @@
    (A("0","0","4","3") :> "transaction") @@
    (A("0","0","4","4") :> "quiz") @@ (A("0","0","4","5") :> "quiz") @@
    (A("0","0","4","6") :> "contract") @@
    (A("0","0","5","1") :> "quiz") @@ (A("0","0","5","2") :> "quiz") @@
    (A("0","0","5","3") :> "quiz") @@ (A("0","0","5","4") :> "quiz") @@
    (A("1","0","0","1") :> "secret") @@ (A("1","0","0","2") :> "secret") @@
    (A("1","0","0","3") :> "secret") @@ (A("1","0","0","4") :> "secret") @@
    (A("1","0","0","5") :> "secret") @@ (A("1","1","0","1") :> "secret")

SubmissionTypes == {"quiz", "transaction", "contract", "custom", "secret"}

\* ACHIEVEMENT_TYPES[achievementNumber], undefined when not listed
ExpectedType(achievementNumber) ==
    IF achievementNumber \in DOMAIN ACHIEVEMENT_TYPES
    THEN Some(ACHIEVEMENT_TYPES[achievementNumber])
    ELSE None

(***************************************************************************)
(* Scores.  A score is kept in units of 1/ScoreDen points; every expected  *)
(* list has between 0 and MaxItems items, so every quotient is exact.      *)
(***************************************************************************)
RECURSIVE Gcd(_, _)
Gcd(a, b) == IF b = 0 THEN a ELSE Gcd(b, a % b)

RECURSIVE LcmUpTo(_)
LcmUpTo(n) == IF n <= 1 THEN 1 ELSE (LcmUpTo(n - 1) * n) \div Gcd(LcmUpTo(n - 1), n)

ScoreDen == LcmUpTo(MaxItems)

\* (count / length) * points, in score units
\* a share that shrinks as the count grows
FractionOfRest(count, length, points) == ((length - count) * points * ScoreDen) \div length

Fraction(count, length, points) == (count * points * ScoreDen) \div length

\* points as a score
Whole(points) == points * ScoreDen

(***************************************************************************)
(* Quiz questions and submitted answers                                    *)
(*                                                                         *)
(* A question is [id, points, ctype, text, pairs, sequence,                *)
(* classifications]: ctype is "string" when correctAnswer is a plain       *)
(* string (text), otherwise correctAnswer.type, with correctAnswer.data in *)
(* text (word), pairs, sequence or classifications.                        *)
(*                                                                         *)
(* A submitted answer is [kind, type, resp, text, pairs, sequence,         *)
(* classifications]:                                                       *)
(*   kind "missing"   no entry for the question id, or a falsy one         *)
(*   kind "plain"     a string that is not wrapped in braces (text)        *)
(*   kind "badjson"   a string wrapped in braces that JSON.parse rejects   *)
(*   kind "envelope"  a string wrapped in braces that parses to an object  *)
(*                    {type, userResponse}; resp is "ok" when the field    *)
(*                    the grader reads is a well-typed value, "absent"     *)
(*                    when userResponse or the field is missing, "garbage" *)
(*                    when the field has a type the grader cannot use      *)
(*   kind "nonstring" a truthy value that is not a string                  *)
(***************************************************************************)
InteractiveTypes ==
    {"word-jumble", "concept-matching", "timeline-builder",
     "true-false-statements", "drag-drop-puzzle"}

Question(id, points, ctype, text, pairs, sequence, classifications) ==
    [id |-> id, points |-> points, ctype |-> ctype, text |-> text, pairs |-> pairs,
     sequence |-> sequence, classifications |-> classifications]

Answer(kind, type, resp, text, pairs, sequence, classifications) ==
    [kind |-> kind, type |-> type, resp |-> resp, text |-> text, pairs |-> pairs,
     sequence |-> sequence, classifications |-> classifications]

MissingAnswer == Answer("missing", "", "absent", <<>>, <<>>, <<>>, <<>>)
PlainAnswer(text) == Answer("plain", "", "absent", text, <<>>, <<>>, <<>>)
BadJsonAnswer == Answer("badjson", "", "absent", <<>>, <<>>, <<>>, <<>>)
NonStringAnswer == Answer("nonstring", "", "absent", <<>>, <<>>, <<>>, <<>>)

\* isInteractiveAnswer: a non-empty string whose trimmed text starts with { and ends with }
isInteractiveAnswer(answer) == answer.kind \in {"envelope", "badjson"}

gradeWordJumble(userAnswer, correctAnswer, points) ==
    IF userAnswer.kind = "badjson" THEN 0                       \* JSON.parse throws
    ELSE IF userAnswer.type # "word-jumble" THEN 0
    ELSE IF userAnswer.resp = "garbage" THEN 0                  \* toUpperCase is not a function
    ELSE LET userWord == IF userAnswer.resp = "ok" THEN toUpperCase(userAnswer.text) ELSE <<>>
             correctWord == toUpperCase(correctAnswer.text)
         IN  IF userWord = correctWord THEN Whole(points) ELSE 0

gradeConceptMatching(userAnswer, correctAnswer, points) ==
    IF userAnswer.kind = "badjson" THEN 0
    ELSE IF userAnswer.type # "concept-matching" THEN 0
    ELSE LET userPairs == IF userAnswer.resp = "ok" THEN userAnswer.pairs ELSE <<>>
             correctPairs == correctAnswer.pairs
             correctCount ==
                 Cardinality({i \in DOMAIN userPairs :
                     \E j \in DOMAIN correctPairs :
                         /\ correctPairs[j][1] = userPairs[i][1]
                         /\ correctPairs[j][2] = userPairs[i][2]})
         IN  IF Len(correctPairs) = 0 THEN 0
             ELSE IF userAnswer.resp = "garbage" THEN 0         \* not iterable
             ELSE Fraction(correctCount, Len(correctPairs), points)

gradeTimelineBuilder(userAnswer, correctAnswer, points) ==
    IF userAnswer.kind = "badjson" THEN 0
    ELSE IF userAnswer.type # "timeline-builder" THEN 0
    ELSE LET userSequence == IF userAnswer.resp = "ok" THEN userAnswer.sequence ELSE <<>>
             correctSequence == correctAnswer.sequence
             correctPositions ==
                 Cardinality({i \in 1..Min(Len(userSequence), Len(correctSequence)) :
                     userSequence[i] = correctSequence[i]})
         IN  IF Len(correctSequence) = 0 THEN 0
             ELSE Fraction(correctPositions, Len(correctSequence), points)

\* correctClassifications.find(cc => cc.id === id): the first entry with that id
FindClassification(correctClassifications, id) ==
    LET hits == {j \in DOMAIN correctClassifications : correctClassifications[j][1] = id}
    IN  IF hits = {} THEN None
        ELSE Some(correctClassifications[CHOOSE j \in hits : \A k \in hits : j <= k])

gradeTrueFalseStatements(userAnswer, correctAnswer, points) ==
    IF userAnswer.kind = "badjson" THEN 0
    ELSE IF userAnswer.type # "true-false-statements" THEN 0
    ELSE LET userClassifications ==
                 IF userAnswer.resp = "ok" THEN userAnswer.classifications ELSE <<>>
             correctClassifications == correctAnswer.classifications
             correctCount ==
                 Cardinality({i \in DOMAIN userClassifications :
                     LET correctClass ==
                             FindClassification(correctClassifications, userClassifications[i][1])
                     IN  /\ IsSome(correctClass)
                         /\ Get(correctClass)[2] = userClassifications[i][2]})
         IN  IF Len(correctClassifications) = 0 THEN 0
             ELSE IF userAnswer.resp = "garbage" THEN 0
             ELSE Fraction(correctCount, Len(correctClassifications), points)

gradeDragDropPuzzle(userAnswer, correctAnswer, points) ==
    IF userAnswer.kind = "badjson" THEN 0
    ELSE IF userAnswer.type # "drag-drop-puzzle" THEN 0
    ELSE LET userSequence == IF userAnswer.resp = "ok" THEN userAnswer.sequence ELSE <<>>
             correctSequence == correctAnswer.sequence
             correctPositions ==
                 Cardinality({i \in 1..Min(Len(userSequence), Len(correctSequence)) :
                     userSequence[i] = correctSequence[i]})
         IN  IF Len(correctSequence) = 0 THEN 0
             ELSE Fraction(correctPositions, Len(correctSequence), points)

(***************************************************************************)
(* ValidationResult and submission data                                    *)
(*                                                                         *)
(* A validator returns a ValidationResult, or throws (thrown = TRUE).  The *)
(* error field holds the error string of the return site ("" when the      *)
(* result has none).                                                       *)
(***************************************************************************)
\* a result that always allows a retry
ResultRetryable(passed, retryAllowed, error) ==
    [thrown |-> FALSE, passed |-> passed, retryAllowed |-> TRUE, error |-> error,
     score |-> None, maxScore |-> None, passingScore |-> None,
     totalQuestions |-> None, correctAnswers |-> None, blockNumber |-> None]

Result(passed, retryAllowed, error) ==
    [thrown |-> FALSE, passed |-> passed, retryAllowed |-> retryAllowed, error |-> error,
     score |-> None, maxScore |-> None, passingScore |-> None,
     totalQuestions |-> None, correctAnswers |-> None, blockNumber |-> None]

Thrown ==
    [thrown |-> TRUE, passed |-> FALSE, retryAllowed |-> FALSE, error |-> "exception",
     score |-> None, maxScore |-> None, passingScore |-> None,
     totalQuestions |-> None, correctAnswers |-> None, blockNumber |-> None]

\* what a validator hands back: its result, the module globals as it leaves them,
\* and the number of fetch calls it made
Outcome(result, globals, fetches) == [result |-> result, globals |-> globals, fetches |-> fetches]

\* submissionData of a request: present is FALSE when the field is missing or falsy
SubmissionData(present, answers, secretAnswer, transactionHash, chainId, claimantAddress, method, contractAddress) ==
    [present |-> present, answers |-> answers, secretAnswer |-> secretAnswer,
     transactionHash |-> transactionHash, chainId |-> chainId,
     claimantAddress |-> claimantAddress, method |-> method,
     contractAddress |-> contractAddress]

NoSecret == [kind |-> "missing", text |-> <<>>]

\* a transactionHash that is undefined, as RegExp.prototype.test reads it
NoHash == <<"u", "n", "d", "e", "f", "i", "n", "e", "d">>

\* prefix followed by n times the character c
Hash(prefix, c, n) == prefix \o [i \in 1..n |-> c]

TxHash == Hash(<<"0", "x">>, "a", 64)
NoData == SubmissionData(FALSE, None, NoSecret, NoHash, None, None, "", None)
QuizData(answers) == SubmissionData(TRUE, answers, NoSecret, NoHash, None, None, "", None)
SecretData(secretAnswer) ==
    SubmissionData(TRUE, None, secretAnswer, NoHash, None, None, "", None)
TransactionData(transactionHash, chainId, claimantAddress, method) ==
    SubmissionData(TRUE, None, NoSecret, transactionHash, chainId, claimantAddress, method, None)
ContractData(contractAddress, chainId) ==
    SubmissionData(TRUE, None, NoSecret, NoHash, chainId, None, "", contractAddress)

(***************************************************************************)
(* External data loaders                                                   *)
(*                                                                         *)
(* globals = [QUIZ_DATA, quizDataCache, SECRET_ANSWERS, secretAnswersCache]*)
(* A cache is None or Some([data, timestamp]).  fetched is what the fetch  *)
(* of the document does if it is made: [ok, doc]; ok = FALSE stands for a  *)
(* network error, a non-OK status or a body that is not JSON.              *)
(***************************************************************************)
CACHE_DURATION == 3600000

QUIZ_DATA_URL == Some("quiz-data.json")
SECRET_ANSWERS_URL == Some("secret-answers.json")

\* a loader whose cache entry is still used at the instant it expires
loadQuizDataInclusive(globals, time, fetched) ==
    IF /\ IsSome(globals.quizDataCache)
       /\ time - Get(globals.quizDataCache).timestamp <= CACHE_DURATION
    THEN [thrown |-> FALSE, fetches |-> 0,
          globals |-> [globals EXCEPT !.QUIZ_DATA = Get(globals.quizDataCache).data]]
    ELSE IF ~fetched.ok
    THEN [thrown |-> TRUE, fetches |-> 1, globals |-> globals]
    ELSE [thrown |-> FALSE, fetches |-> 1,
          globals |-> [globals EXCEPT
                          !.QUIZ_DATA = fetched.doc,
                          !.quizDataCache = Some([data |-> fetched.doc, timestamp |-> time])]]

\* a loader that answers a failed fetch with the payload it already holds
loadQuizDataStale(globals, time, fetched) ==
    IF /\ IsSome(globals.quizDataCache)
       /\ time - Get(globals.quizDataCache).timestamp < CACHE_DURATION
    THEN [thrown |-> FALSE, fetches |-> 0,
          globals |-> [globals EXCEPT !.QUIZ_DATA = Get(globals.quizDataCache).data]]
    ELSE IF ~fetched.ok
    THEN [thrown |-> FALSE, fetches |-> 1, globals |-> globals]
    ELSE [thrown |-> FALSE, fetches |-> 1,
          globals |-> [globals EXCEPT
                          !.QUIZ_DATA = fetched.doc,
                          !.quizDataCache = Some([data |-> fetched.doc, timestamp |-> time])]]

\* loadQuizData: [thrown, globals, fetches]
loadQuizData(globals, time, fetched) ==
    IF /\ IsSome(globals.quizDataCache)
       /\ time - Get(globals.quizDataCache).timestamp < CACHE_DURATION
    THEN [thrown |-> FALSE, fetches |-> 0,
          globals |-> [globals EXCEPT !.QUIZ_DATA = Get(globals.quizDataCache).data]]
    ELSE IF ~IsSome(QUIZ_DATA_URL)
    THEN [thrown |-> FALSE, fetches |-> 0, globals |-> globals]
    ELSE IF ~fetched.ok
    THEN [thrown |-> TRUE, fetches |-> 1, globals |-> globals]
    ELSE [thrown |-> FALSE, fetches |-> 1,
          globals |-> [globals EXCEPT
                          !.QUIZ_DATA = fetched.doc,
                          !.quizDataCache = Some([data |-> fetched.doc, timestamp |-> time])]]

\* loadSecretAnswers: [thrown, globals, fetches]
loadSecretAnswers(globals, time, fetched) ==
    IF /\ IsSome(globals.secretAnswersCache)
       /\ time - Get(globals.secretAnswersCache).timestamp < CACHE_DURATION
    THEN [thrown |-> FALSE, fetches |-> 0,
          globals |-> [globals EXCEPT !.SECRET_ANSWERS = Get(globals.secretAnswersCache).data]]
    ELSE IF ~IsSome(SECRET_ANSWERS_URL)
    THEN [thrown |-> FALSE, fetches |-> 0, globals |-> globals]
    ELSE IF ~fetched.ok
    THEN [thrown |-> TRUE, fetches |-> 1, globals |-> globals]
    ELSE [thrown |-> FALSE, fetches |-> 1,
          globals |-> [globals EXCEPT
                          !.SECRET_ANSWERS = fetched.doc,
                          !.secretAnswersCache = Some([data |-> fetched.doc, timestamp |-> time])]]

(***************************************************************************)
(* Secret validator                                                        *)
(***************************************************************************)
LAUNCH_ACHIEVEMENT == A("1","1","0","1")

\* new Date('2025-11-14T23:00:00Z'), in ms since the worker started: the
\* worker is taken to start one cache lifetime before the cutoff
LAUNCH_CUTOFF == 3600000

validateSecretSubmission(submissionData, context, globals, time, fetched) ==
    LET loaded == loadSecretAnswers(globals, time, fetched)
        answers == loaded.globals.SECRET_ANSWERS
        expectedAnswer ==
            IF context.achievementNumber \in DOMAIN answers
            THEN answers[context.achievementNumber] ELSE <<>>
        secretAnswer == submissionData.secretAnswer
        passed == trim(secretAnswer.text) = expectedAnswer
        result ==
            IF Len(expectedAnswer) = 0
            THEN Result(FALSE, FALSE, "Secret answer not configured for this achievement")
            ELSE IF context.achievementNumber = LAUNCH_ACHIEVEMENT /\ time > LAUNCH_CUTOFF
            THEN Result(FALSE, FALSE, "This launch day achievement is no longer available")
            ELSE IF secretAnswer.kind # "string" \/ Len(secretAnswer.text) = 0
            THEN Result(FALSE, TRUE, "Secret answer is required")
            ELSE Result(passed, ~passed, "")
    IN  IF loaded.thrown THEN Outcome(Thrown, loaded.globals, loaded.fetches)
        ELSE Outcome(result, loaded.globals, loaded.fetches)

(***************************************************************************)
(* Quiz validator                                                          *)
(***************************************************************************)
\* one iteration of the loop over the questions: [thrown, score, correct]
GradeQuestion(question, submittedAnswer) ==
    IF submittedAnswer.kind = "missing"
    THEN [thrown |-> FALSE, score |-> 0, correct |-> 0]
    ELSE IF isInteractiveAnswer(submittedAnswer)
    THEN IF question.ctype \in InteractiveTypes
         THEN LET questionScore ==
                      CASE question.ctype = "word-jumble" ->
                               gradeWordJumble(submittedAnswer, question, question.points)
                        [] question.ctype = "concept-matching" ->
                               gradeConceptMatching(submittedAnswer, question, question.points)
                        [] question.ctype = "timeline-builder" ->
                               gradeTimelineBuilder(submittedAnswer, question, question.points)
                        [] question.ctype = "true-false-statements" ->
                               gradeTrueFalseStatements(submittedAnswer, question, question.points)
                        [] question.ctype = "drag-drop-puzzle" ->
                               gradeDragDropPuzzle(submittedAnswer, question, question.points)
              IN  [thrown |-> FALSE, score |-> questionScore,
                   correct |-> IF questionScore = Whole(question.points) THEN 1 ELSE 0]
         ELSE [thrown |-> FALSE, score |-> 0, correct |-> 0]
    ELSE IF question.ctype = "string"
    THEN IF submittedAnswer.kind = "nonstring"
         THEN [thrown |-> TRUE, score |-> 0, correct |-> 0]   \* toUpperCase is not a function
         ELSE IF toUpperCase(submittedAnswer.text) = toUpperCase(question.text)
         THEN [thrown |-> FALSE, score |-> Whole(question.points), correct |-> 1]
         ELSE [thrown |-> FALSE, score |-> 0, correct |-> 0]
    ELSE [thrown |-> FALSE, score |-> 0, correct |-> 0]

\* submissionData.answers[question.id]
SubmittedAnswer(answers, id) == IF id \in DOMAIN answers THEN answers[id] ELSE MissingAnswer

\* the loop over the questions: [thrown, score, correct]
RECURSIVE GradeQuestions(_, _)
GradeQuestions(questions, answers) ==
    IF Len(questions) = 0 THEN [thrown |-> FALSE, score |-> 0, correct |-> 0]
    ELSE LET first ==
                 IF ~IsSome(answers) THEN [thrown |-> TRUE, score |-> 0, correct |-> 0]
                 ELSE GradeQuestion(questions[1], SubmittedAnswer(Get(answers), questions[1].id))
             rest == GradeQuestions(Tail(questions), answers)
         IN  IF first.thrown \/ rest.thrown THEN [thrown |-> TRUE, score |-> 0, correct |-> 0]
             ELSE [thrown |-> FALSE, score |-> first.score + rest.score,
                   correct |-> first.correct + rest.correct]

RECURSIVE SumPoints(_)
SumPoints(questions) ==
    IF Len(questions) = 0 THEN 0 ELSE questions[1].points + SumPoints(Tail(questions))

\* a threshold on the score itself
PassesAbsolute(totalScore, maxScore, passingScore) == totalScore >= passingScore * ScoreDen

\* scorePercentage >= passingScore, with scorePercentage = 0 when maxScore is 0
PassesThreshold(totalScore, maxScore, passingScore) ==
    IF maxScore > 0
    THEN totalScore * 100 >= passingScore * maxScore * ScoreDen
    ELSE 0 >= passingScore

\* validateQuizSubmission from its read of QUIZ_DATA on
QuizResult(data, submissionData, context) ==
    LET quizData == data[context.achievementNumber]
        graded == GradeQuestions(quizData.questions, submissionData.answers)
        maxScore == SumPoints(quizData.questions)
        passed == PassesThreshold(graded.score, maxScore, quizData.passingScore)
        result ==
            IF context.achievementNumber \notin DOMAIN data
            THEN Result(FALSE, FALSE, "Quiz data not found for this achievement")
            ELSE IF graded.thrown THEN Thrown
            ELSE [Result(passed, ~passed, "") EXCEPT
                     !.score = Some(graded.score),
                     !.maxScore = Some(maxScore),
                     !.passingScore = Some(quizData.passingScore),
                     !.totalQuestions = Some(Len(quizData.questions)),
                     !.correctAnswers = Some(graded.correct)]
    IN  result

validateQuizSubmission(submissionData, context, globals, time, fetched) ==
    LET loaded == loadQuizData(globals, time, fetched)
    IN  IF loaded.thrown THEN Outcome(Thrown, loaded.globals, loaded.fetches)
        ELSE Outcome(QuizResult(loaded.globals.QUIZ_DATA, submissionData, context),
                     loaded.globals, loaded.fetches)

(***************************************************************************)
(* Blockchain RPC                                                          *)
(*                                                                         *)
(* The answer to one JSON-RPC fetch is [thrown, ok, err, result]:          *)
(*   thrown  fetch rejects or the body is not JSON                         *)
(*   ok      response.ok                                                   *)
(*   err     "" when the body has no error object, else "generic" or       *)
(*           "does not exist" (what error.message says)                    *)
(*   result  "null", "0x", "zero32" (32 zero bytes), "blank" (data that    *)
(*           decodes to an empty string) or "data"                         *)
(* A chain (what one endpoint serves) is a record of the answers to the    *)
(* probes the validators make and of what the answers decode to.  net maps *)
(* an endpoint, "testnet" or "mainnet", to its chain.                      *)
(***************************************************************************)
Rpc(thrown, ok, err, result) == [thrown |-> thrown, ok |-> ok, err |-> err, result |-> result]

\* !response.ok || data.error
RpcFailed(r) == ~r.ok \/ r.err # ""

\* !data.result || data.result === '0x'
RpcEmpty(r) == r.result \in {"null", "0x"}

\* a ValidationResult with the number of fetch calls made to produce it
Verdict(result, fetches) == [result |-> result, fetches |-> fetches]

NEXT_PUBLIC_FACTORY_ADDRESS_TESTNET == Some("FactoryTestnet")
NEXT_PUBLIC_FACTORY_ADDRESS_MAINNET == Some("FactoryMainnet")

TESTNET_CHAIN_ID == 33101
MAINNET_CHAIN_ID == 32769

\* claimantAddress.toLowerCase() !== context.walletAddress.toLowerCase():
\* "throw" when claimantAddress is not a string
ClaimantCheck(claimantAddress, walletAddress) ==
    IF ~IsSome(claimantAddress) THEN "mismatch"
    ELSE IF Get(claimantAddress).form = "nonstring" THEN "throw"
    ELSE IF addressToLowerCase(Get(claimantAddress)) # addressToLowerCase(walletAddress)
    THEN "mismatch"
    ELSE "ok"

\* verifyERC20Token: [isValid, fetches]; the four calls are answered by chain.erc20
RECURSIVE ERC20Calls(_, _)
ERC20Calls(answers, made) ==
    IF Len(answers) = 0 THEN [isValid |-> TRUE, fetches |-> made]
    ELSE IF answers[1].thrown \/ RpcFailed(answers[1]) \/ RpcEmpty(answers[1])
    THEN [isValid |-> FALSE, fetches |-> made + 1]
    ELSE ERC20Calls(Tail(answers), made + 1)

\* an ERC-20 check that accepts any name and symbol the token answers with
verifyERC20TokenAnyName(chain) == ERC20Calls(chain.erc20, 0)

\* the string decoded from a name() or symbol() result is empty: hexToString skips the
\* null bytes, so 32 zero bytes decode to the empty string too
DecodesEmpty(r) == r.result \in {"blank", "zero32"}

verifyERC20Token(chain) ==
    LET calls == ERC20Calls(chain.erc20, 0)
    IN  IF ~calls.isValid THEN calls
        ELSE IF DecodesEmpty(chain.erc20[1]) \/ DecodesEmpty(chain.erc20[2])
        THEN [isValid |-> FALSE, fetches |-> calls.fetches]
        ELSE calls

\* a claimant check that accepts whoever the contract names
verifyClaimantFieldAnyone(chain, expectedClaimant) ==
    [isValid |-> ~(chain.claimant.thrown \/ RpcFailed(chain.claimant) \/ RpcEmpty(chain.claimant)),
     fetches |-> 1]

\* verifyClaimantField: [isValid, fetches].  A result of zero bytes or of an encoded empty
\* string decodes to an address that is no wallet's.
verifyClaimantField(chain, expectedClaimant) ==
    IF chain.claimant.thrown \/ RpcFailed(chain.claimant) \/ RpcEmpty(chain.claimant)
    THEN [isValid |-> FALSE, fetches |-> 1]
    ELSE [isValid |-> /\ chain.claimant.result = "data"
                      /\ chain.claimantIs = addressToLowerCase(expectedClaimant).id,
          fetches |-> 1]

\* the receipt checks every deployment verifier starts with; "" when they pass
ReceiptProblem(chain) ==
    IF chain.receipt.thrown THEN "exception"
    ELSE IF RpcFailed(chain.receipt) \/ chain.receipt.result = "null"
    THEN "Failed to get transaction receipt"
    ELSE IF chain.receipt.result # "data" \/ chain.status # "0x1"   \* no status, or not '0x1'
    THEN "Transaction failed on the blockchain"
    ELSE ""

\* one existence probe: !ok || error || !result || result === '0x'
ProbeMissing(r) == RpcFailed(r) \/ RpcEmpty(r)

\* the factory address verifyFactoryTokenCreation compares the receipt against
FactoryAddressFor(chainId) ==
    IF chainId = TESTNET_CHAIN_ID THEN NEXT_PUBLIC_FACTORY_ADDRESS_TESTNET
    ELSE NEXT_PUBLIC_FACTORY_ADDRESS_MAINNET

verifyFactoryTokenCreation(chainId, expectedCreator, context, net) ==
    LET chain == net[context.rpcUrl]
        factoryAddress == FactoryAddressFor(chainId)
        problem == ReceiptProblem(chain)
        token == verifyERC20Token(chain)
    IN  IF ~IsSome(factoryAddress)
        THEN Verdict(Result(FALSE, FALSE, "Token factory not deployed on this network"), 0)
        ELSE IF problem = "exception"
        THEN Verdict(Result(FALSE, TRUE, "Failed to verify factory token creation"), 1)
        ELSE IF problem # "" THEN Verdict(Result(FALSE, TRUE, problem), 1)
        ELSE IF chain.to # Get(factoryAddress)
        THEN Verdict(Result(FALSE, TRUE,
                 "Transaction did not call the Plunder Academy token factory"), 1)
        ELSE IF chain.log = "none"
        THEN Verdict(Result(FALSE, TRUE, "No TokenCreated event found in transaction"), 1)
        ELSE IF chain.log = "malformed"
        THEN Verdict(Result(FALSE, TRUE, "Failed to verify factory token creation"), 1)
        ELSE IF chain.logCreator # addressToLowerCase(expectedCreator).id
        THEN Verdict(Result(FALSE, TRUE, "Token creator does not match connected wallet"), 1)
        ELSE IF ~token.isValid
        THEN Verdict(Result(FALSE, TRUE, "Token validation failed"), 1 + token.fetches)
        ELSE Verdict(Result(TRUE, FALSE, ""), 1 + token.fetches)

verifyManualTokenDeployment(chainId, expectedClaimant, context, net) ==
    LET chain == net[context.rpcUrl]
        problem == ReceiptProblem(chain)
        token == verifyERC20Token(chain)
        claimant == verifyClaimantField(chain, expectedClaimant)
    IN  IF problem = "exception"
        THEN Verdict(Result(FALSE, TRUE, "Failed to verify manual token deployment"), 1)
        ELSE IF problem # "" THEN Verdict(Result(FALSE, TRUE, problem), 1)
        ELSE IF ~chain.contractAddress
        THEN Verdict(Result(FALSE, TRUE, "Transaction did not deploy a contract"), 1)
        ELSE IF ~token.isValid
        THEN Verdict(Result(FALSE, TRUE, "Token validation failed"), 1 + token.fetches)
        ELSE IF ~claimant.isValid
        THEN Verdict(Result(FALSE, TRUE, "claimant validation failed"),
                     1 + token.fetches + claimant.fetches)
        ELSE Verdict(Result(TRUE, FALSE, ""), 1 + token.fetches + claimant.fetches)

\* the shape shared by verifyStakingContract and verifyNFTCollection: receipt, claimant()
\* and two existence probes
DeploymentWithProbes(chain, expectedClaimant, first, second, catchError, firstError, secondError) ==
    LET problem == ReceiptProblem(chain)
        claimant == verifyClaimantField(chain, expectedClaimant)
    IN  IF problem = "exception" THEN Verdict(Result(FALSE, TRUE, catchError), 1)
        ELSE IF problem # "" THEN Verdict(Result(FALSE, TRUE, problem), 1)
        ELSE IF ~chain.contractAddress
        THEN Verdict(Result(FALSE, TRUE, "Transaction did not deploy a contract"), 1)
        ELSE IF ~claimant.isValid
        THEN Verdict(Result(FALSE, TRUE, "claimant validation failed"), 2)
        ELSE IF first.thrown THEN Verdict(Result(FALSE, TRUE, catchError), 3)
        ELSE IF ProbeMissing(first) THEN Verdict(Result(FALSE, TRUE, firstError), 3)
        ELSE IF second.thrown THEN Verdict(Result(FALSE, TRUE, catchError), 4)
        ELSE IF ProbeMissing(second) THEN Verdict(Result(FALSE, TRUE, secondError), 4)
        ELSE Verdict(Result(TRUE, FALSE, ""), 4)

verifyStakingContract(chainId, expectedClaimant, context, net) ==
    LET chain == net[context.rpcUrl]
    IN  DeploymentWithProbes(chain, expectedClaimant, chain.stakingToken, chain.totalStaked,
            "Failed to verify staking contract deployment",
            "Contract does not appear to be a staking contract (missing stakingToken)",
            "Contract does not appear to be a staking contract (missing totalStaked)")

verifyNFTCollection(chainId, expectedClaimant, context, net) ==
    LET chain == net[context.rpcUrl]
    IN  DeploymentWithProbes(chain, expectedClaimant, chain.maxSupply, chain.totalMinted,
            "Failed to verify NFT collection deployment",
            "Contract does not appear to be an NFT collection (missing MAX_SUPPLY)",
            "Contract does not appear to be an NFT collection (missing totalMinted)")

verifyRandomNumberGenerator(chainId, expectedClaimant, context, net) ==
    LET chain == net[context.rpcUrl]
        problem == ReceiptProblem(chain)
        claimant == verifyClaimantField(chain, expectedClaimant)
        catchError == "Failed to verify random number generator deployment"
    IN  IF problem = "exception" THEN Verdict(Result(FALSE, TRUE, catchError), 1)
        ELSE IF problem # "" THEN Verdict(Result(FALSE, TRUE, problem), 1)
        ELSE IF ~chain.contractAddress
        THEN Verdict(Result(FALSE, TRUE, "Transaction did not deploy a contract"), 1)
        ELSE IF ~claimant.isValid
        THEN Verdict(Result(FALSE, TRUE, "claimant validation failed"), 2)
        ELSE IF chain.reveal.thrown THEN Verdict(Result(FALSE, TRUE, catchError), 3)
        ELSE IF ~chain.reveal.ok /\ chain.reveal.err = "does not exist"
        THEN Verdict(Result(FALSE, TRUE,
                 "Contract does not appear to be a random number generator (missing reveal function)"), 3)
        ELSE IF chain.commitments.thrown THEN Verdict(Result(FALSE, TRUE, catchError), 4)
        ELSE IF RpcFailed(chain.commitments)
        THEN Verdict(Result(FALSE, TRUE,
                 "Contract does not appear to be a random number generator (missing commitments mapping)"), 4)
        ELSE Verdict(Result(TRUE, FALSE, ""), 4)

verifyUpgradeableContract(proxyAddress, chainId, expectedClaimant, context, net) ==
    LET chain == net[context.rpcUrl]
        claimant == verifyClaimantField(chain, expectedClaimant)
    IN  IF ~claimant.isValid
        THEN Verdict(Result(FALSE, TRUE, "claimant validation failed"), 1)
        ELSE IF chain.storage.thrown
        THEN Verdict(Result(FALSE, TRUE, "Failed to verify upgradeable contract proxy"), 2)
        ELSE IF RpcFailed(chain.storage)
        THEN Verdict(Result(FALSE, TRUE, "Failed to read proxy storage slot"), 2)
        ELSE IF chain.storage.result \in {"null", "0x", "zero32"}
        THEN Verdict(Result(FALSE, TRUE,
                 "Contract does not appear to be an EIP-1967 proxy (implementation slot is empty)"), 2)
        ELSE Verdict(Result(TRUE, FALSE, ""), 2)

HexDigits ==
    {"0", "1", "2", "3", "4", "5", "6", "7", "8", "9",
     "a", "b", "c", "d", "e", "f", "A", "B", "C", "D", "E", "F"}

\* a pattern without the closing anchor: /^0x[a-fA-F0-9]{64}/
TxIdPatternUnanchored(transactionHash) ==
    /\ Len(transactionHash) >= 66
    /\ transactionHash[1] = "0" /\ transactionHash[2] = "x"
    /\ \A i \in 3..66 : transactionHash[i] \in HexDigits

\* txIdPattern.test(transactionHash), txIdPattern = /^0x[a-fA-F0-9]{64}$/
TxIdPatternTest(transactionHash) ==
    /\ Len(transactionHash) = 66
    /\ transactionHash[1] = "0" /\ transactionHash[2] = "x"
    /\ \A i \in 3..66 : transactionHash[i] \in HexDigits

\* the generic check at the end of validateTransactionSubmission
GenericTransactionCheck(context, net) ==
    LET chain == net[context.rpcUrl]
    IN  IF chain.tx.thrown
        THEN Verdict(Result(FALSE, TRUE, "Failed to validate transaction due to network error"), 1)
        ELSE IF RpcFailed(chain.tx)
        THEN Verdict(Result(FALSE, TRUE, "Failed to verify transaction"), 1)
        ELSE IF chain.tx.result = "null"
        THEN Verdict(Result(FALSE, TRUE, "Transaction not found on the blockchain"), 1)
        ELSE IF chain.tx.result # "data" \/ chain.txFrom.form \notin {"lower", "checksum"}
                                                            \* normalizeAddress throws
        THEN Verdict(Result(FALSE, TRUE, "Failed to validate transaction due to network error"), 1)
        ELSE IF normalizeAddress(chain.txFrom) # normalizeAddress(context.walletAddress)
        THEN Verdict(Result(FALSE, TRUE, "Transaction must be from the submitting wallet address"), 1)
        ELSE Verdict([Result(TRUE, FALSE, "") EXCEPT !.blockNumber = chain.txBlockNumber], 1)

\* chainId || 33101
ChainIdOrDefault(chainId) == IF IsSome(chainId) THEN Get(chainId) ELSE TESTNET_CHAIN_ID

validateTransactionSubmission(submissionData, context, net) ==
    LET chainId == ChainIdOrDefault(submissionData.chainId)
        claimantAddress == submissionData.claimantAddress
        method == submissionData.method
        check == ClaimantCheck(claimantAddress, context.walletAddress)
        mismatch ==
            Verdict(Result(FALSE, TRUE,
                "Claimant address must match the submitting wallet address"), 0)
        achievement == context.achievementNumber
    IN  IF ~TxIdPatternTest(submissionData.transactionHash)
        THEN Verdict(Result(FALSE, TRUE, "Invalid transaction ID format"), 0)
        ELSE IF achievement = A("0","0","0","5")
        THEN IF method = ""
             THEN Verdict(Result(FALSE, TRUE,
                      "Token creation method is required for achievement 0005"), 0)
             ELSE IF check = "throw" THEN Verdict(Thrown, 0)
             ELSE IF check = "mismatch" THEN mismatch
             ELSE IF method = "factory"
             THEN verifyFactoryTokenCreation(chainId, Get(claimantAddress), context, net)
             ELSE IF method = "deployment"
             THEN verifyManualTokenDeployment(chainId, Get(claimantAddress), context, net)
             ELSE Verdict(Result(FALSE, TRUE, "Invalid method"), 0)
        ELSE IF achievement \in {A("0","0","2","5"), A("0","0","3","3"), A("0","0","4","3")}
        THEN IF check = "throw" THEN Verdict(Thrown, 0)
             ELSE IF check = "mismatch" THEN mismatch
             ELSE IF achievement = A("0","0","2","5")
             THEN verifyStakingContract(chainId, Get(claimantAddress), context, net)
             ELSE IF achievement = A("0","0","3","3")
             THEN verifyNFTCollection(chainId, Get(claimantAddress), context, net)
             ELSE verifyRandomNumberGenerator(chainId, Get(claimantAddress), context, net)
        ELSE GenericTransactionCheck(context, net)

\* the 'contract' case of validateSubmission
validateContractSubmission(submissionData, context, net) ==
    IF context.achievementNumber = A("0","0","4","6")
    THEN IF ~isValidEthereumAddress(submissionData.contractAddress)
         THEN Verdict(Result(FALSE, TRUE,
                  "Valid contract address is required for achievement 0046"), 0)
         ELSE verifyUpgradeableContract(Get(submissionData.contractAddress),
                  ChainIdOrDefault(submissionData.chainId), context.walletAddress, context, net)
    ELSE Verdict(Result(FALSE, FALSE,
             "Contract validation not yet implemented for this achievement"), 0)

(***************************************************************************)
(* validateSubmission: the dispatch on context.submissionType.  world is   *)
(* what the outside answers while the validator runs: [quiz, secret] the   *)
(* document fetches, [net] the chains behind the RPC endpoints.            *)
(***************************************************************************)
validateSubmission(context, globals, time, world) ==
    LET data == context.submissionData
        type == context.submissionType
        OnChain(verdict) == Outcome(verdict.result, globals, verdict.fetches)
    IN  CASE type = "quiz" -> validateQuizSubmission(data, context, globals, time, world.quiz)
          [] type = "secret" -> validateSecretSubmission(data, context, globals, time, world.secret)
          [] type = "transaction" ->
                 OnChain(validateTransactionSubmission(data, context, world.net))
          [] type = "contract" ->
                 OnChain(validateContractSubmission(data, context, world.net))
          [] type = "custom" ->
                 Outcome(Result(FALSE, FALSE, "Custom validation not yet implemented"), globals, 0)
          [] OTHER -> Outcome(Result(FALSE, FALSE, "Unknown submission type"), globals, 0)

(***************************************************************************)
(* Voucher signer                                                          *)
(*                                                                         *)
(* An EIP-712 signature is modelled by what it commits to: the signing     *)
(* key, the domain and the struct.  Recovering it against the same domain  *)
(* and struct yields the key's address, against any other an address that  *)
(* belongs to nobody.                                                      *)
(***************************************************************************)
ISSUER_PRIVATE_KEY == "IssuerKey"
CONTRACT_ADDRESS == "Registry"
CHAIN_ID == 33101

Domain(chainId, verifyingContract) ==
    [name |-> "TrainingCert", version |-> "1", chainId |-> chainId,
     verifyingContract |-> verifyingContract]

\* new VoucherSigner(privateKey, contractAddress, chainId).signVoucher(voucher)
signVoucher(privateKey, contractAddress, chainId, voucher) ==
    [key |-> privateKey, domain |-> Domain(chainId, contractAddress),
     taskCode |-> voucher.taskCode, wallet |-> voucher.wallet]

(***************************************************************************)
(* Completion store (D1).  A row keeps the columns the pipeline reads or   *)
(* the claims speak of; submission_data, metadata and created_at are left  *)
(* out (rows are kept in insertion order).                                 *)
(***************************************************************************)
\* x || null for a number: undefined and 0 are both stored as NULL
NumberOrNull(o) == IF IsSome(o) /\ Get(o) # 0 THEN o ELSE None

\* DatabaseService.createTrainingCompletion
createTrainingCompletion(rows, completion) ==
    Append(rows,
        [wallet_address |-> completion.wallet_address,
         achievement_number |-> completion.achievement_number,
         task_code |-> completion.task_code,
         submission_type |-> completion.submission_type,
         score |-> NumberOrNull(completion.score),
         max_score |-> NumberOrNull(completion.max_score),
         passed |-> completion.passed,
         voucher_signature |-> completion.voucher_signature])

\* a prior-completion read that never finds a row
getNoCompletion(rows, walletAddress, achievementNumber) == None

\* DatabaseService.getTrainingCompletion: the most recent row of the pair with passed = true
getTrainingCompletion(rows, walletAddress, achievementNumber) ==
    LET hits == {i \in DOMAIN rows :
                    /\ rows[i].wallet_address = walletAddress
                    /\ rows[i].achievement_number = achievementNumber
                    /\ rows[i].passed}
    IN  IF hits = {} THEN None
        ELSE Some(rows[CHOOSE i \in hits : \A j \in hits : j <= i])

\* DatabaseService.createWalletData: INSERT OR IGNORE
createWalletData(wallets, walletAddress) == wallets \cup {walletAddress}

(***************************************************************************)
(* Submission router: POST /submit                                         *)
(*                                                                         *)
(* A request is [walletAddress, achievementNumber, submissionType,         *)
(* submissionData]; walletAddress and achievementNumber are optional, an   *)
(* achievementNumber that is not a string is Some(<<"#">>) with            *)
(* numberIsString = FALSE.                                                 *)
(*                                                                         *)
(* A run is the handler's progress on one request: pc is the await it is   *)
(* at, the counters record what it has done, status is the HTTP status of  *)
(* its response (0 until it responds); readAt is the number of rows the    *)
(* store held when the run read it, rowAt the index of the row the run     *)
(* inserted (0 when none).                                                 *)
(***************************************************************************)
Request(walletAddress, achievementNumber, numberIsString, submissionType, submissionData) ==
    [walletAddress |-> walletAddress, achievementNumber |-> achievementNumber,
     numberIsString |-> numberIsString, submissionType |-> submissionType,
     submissionData |-> submissionData]

NewRun(req) ==
    [req |-> req, pc |-> "start", status |-> 0, success |-> FALSE, error |-> "",
     voucher |-> None, signature |-> None, results |-> None, chainId |-> None,
     rpcUrl |-> "", gateReads |-> 0, validatorCalls |-> 0, fetches |-> 0, signs |-> 0,
     inserts |-> 0, walletInserts |-> 0, readAt |-> 0, rowAt |-> 0,
     fault |-> "none", logged |-> ""]

\* the calls of the handler that may throw for reasons outside the request: c.req.json(),
\* getTrainingCompletion, createWalletData, the signer, createTrainingCompletion
Faults == {"json", "read", "wallet", "sign", "insert"}

Respond(run, status, error) == [run EXCEPT !.pc = "done", !.status = status, !.error = error]

\* a catch block that answers 500 with whatever the handler had built so far
CatchKeeping(run, site) ==
    [run EXCEPT !.pc = "done", !.status = 500, !.logged = site,
                !.error = "Failed to process achievement submission"]

\* the catch block of the handler: logs the error thrown at `site`, answers
\* {success: false, error: 'Failed to process achievement submission'} with status 500
Catch(run, site) ==
    [run EXCEPT !.pc = "done", !.status = 500, !.logged = site, !.success = FALSE,
                !.error = "Failed to process achievement submission",
                !.voucher = None, !.signature = None, !.results = None, !.chainId = None]

\* body checks without the comparison of the declared kind with the catalog's
ShapeErrorNoKind(req) ==
    IF ~isValidEthereumAddress(req.walletAddress) THEN "Invalid wallet address"
    ELSE IF ~IsSome(req.achievementNumber) \/ ~req.numberIsString
            \/ Len(Get(req.achievementNumber)) = 0
    THEN "Invalid achievement number"
    ELSE IF req.submissionType \notin SubmissionTypes THEN "Invalid submission type"
    ELSE IF ~req.submissionData.present THEN "Submission data is required"
    ELSE IF ~IsSome(ExpectedType(Get(req.achievementNumber)))
    THEN "Invalid achievement number - achievement does not exist"
    ELSE ""

\* the checks on the request body, in the order of the code; "" when all pass
ShapeError(req) ==
    IF ~isValidEthereumAddress(req.walletAddress) THEN "Invalid wallet address"
    ELSE IF ~IsSome(req.achievementNumber) \/ ~req.numberIsString
            \/ Len(Get(req.achievementNumber)) = 0
    THEN "Invalid achievement number"
    ELSE IF req.submissionType \notin SubmissionTypes THEN "Invalid submission type"
    ELSE IF ~req.submissionData.present THEN "Submission data is required"
    ELSE IF ~IsSome(ExpectedType(Get(req.achievementNumber)))
    THEN "Invalid achievement number - achievement does not exist"
    ELSE IF req.submissionType # Get(ExpectedType(Get(req.achievementNumber)))
    THEN "Invalid submission type for achievement"
    ELSE IF LET taskCode == achievementNumberToTaskCode(Get(req.achievementNumber))
            IN  taskCode # NaN /\ taskCode <= 0
    THEN "Invalid achievement number format"
    ELSE ""

RPC_URL_MAINNET == "mainnet"
RPC_URL_TESTNET == "testnet"

\* a selection that sends an unrecognized or absent chain id to the mainnet endpoint
SelectRpcUrlMainnetDefault(submissionType, submissionData) ==
    IF submissionType \in {"transaction", "contract"}
       /\ submissionData.chainId = Some(TESTNET_CHAIN_ID)
    THEN RPC_URL_TESTNET
    ELSE RPC_URL_MAINNET

\* the endpoint the router hands to the validator
SelectRpcUrl(submissionType, submissionData) ==
    IF submissionType \in {"transaction", "contract"}
    THEN IF submissionData.chainId = Some(TESTNET_CHAIN_ID) THEN RPC_URL_TESTNET
         ELSE IF submissionData.chainId = Some(MAINNET_CHAIN_ID) THEN RPC_URL_MAINNET
         ELSE RPC_URL_TESTNET
    ELSE RPC_URL_MAINNET

\* the chainId of the response
ResponseChainId(submissionType, submissionData) ==
    IF submissionType \in {"transaction", "contract"} /\ IsSome(submissionData.chainId)
    THEN Get(submissionData.chainId)
    ELSE CHAIN_ID

NormalizedWallet(run) == normalizeAddress(Get(run.req.walletAddress))
AchievementOf(run) == Get(run.req.achievementNumber)

\* x = [run, st]: a run and the shared state st = [completions, walletData, signLog,
\* globals] it acts on.  Each step is the code between two awaits.
StepShape(x) ==
    LET problem == ShapeError(x.run.req)
    IN  IF x.run.fault = "json" THEN [x EXCEPT !.run = Catch(x.run, "json")]
        ELSE IF problem # "" THEN [x EXCEPT !.run = Respond(x.run, 400, problem)]
        ELSE [x EXCEPT !.run.pc = "gate"]

\* a gate that lets every request through to the validator
StepGateOpen(x) ==
    [x EXCEPT !.run = [@ EXCEPT !.gateReads = @ + 1, !.pc = "validate",
                                !.readAt = Len(x.st.completions)]]

\* a gate that answers 409 for a pair with any earlier row, passed or not
StepGateAnyRow(x) ==
    LET read == [x.run EXCEPT !.gateReads = @ + 1, !.readAt = Len(x.st.completions)]
        earlier == {i \in DOMAIN x.st.completions :
                       /\ x.st.completions[i].wallet_address = NormalizedWallet(x.run)
                       /\ x.st.completions[i].achievement_number = AchievementOf(x.run)}
    IN  IF earlier # {}
        THEN [x EXCEPT !.run = Respond(read, 409, "Achievement already completed successfully")]
        ELSE [x EXCEPT !.run = [read EXCEPT !.pc = "validate"]]

StepGate(x) ==
    LET existingCompletion ==
            getTrainingCompletion(x.st.completions, NormalizedWallet(x.run), AchievementOf(x.run))
        read == [x.run EXCEPT !.gateReads = @ + 1, !.readAt = Len(x.st.completions)]
    IN  IF x.run.fault = "read" THEN [x EXCEPT !.run = Catch(read, "read")]
        ELSE IF IsSome(existingCompletion) /\ Get(existingCompletion).passed
        THEN [x EXCEPT !.run = Respond(read, 409, "Achievement already completed successfully")]
        ELSE [x EXCEPT !.run = [read EXCEPT !.pc = "validate"]]

StepValidate(x, time, world) ==
    LET req == x.run.req
        rpcUrl == SelectRpcUrl(req.submissionType, req.submissionData)
        validationContext ==
            [achievementNumber |-> AchievementOf(x.run),
             walletAddress |-> NormalizedWallet(x.run),
             rpcUrl |-> rpcUrl,
             submissionType |-> req.submissionType,
             submissionData |-> req.submissionData]
        Ran(out) == [x.run EXCEPT !.validatorCalls = @ + 1, !.fetches = @ + out.fetches,
                                  !.rpcUrl = rpcUrl]
        After(out) ==
            IF out.result.thrown
            THEN [run |-> Catch(Ran(out), "validator"),
                  st |-> [x.st EXCEPT !.globals = out.globals]]
            ELSE [run |-> [Ran(out) EXCEPT !.pc = "wallet", !.results = Some(out.result)],
                  st |-> [x.st EXCEPT !.globals = out.globals]]
    IN  After(validateSubmission(validationContext, x.st.globals, time, world))

StepWallet(x) ==
    IF x.run.fault = "wallet" THEN [x EXCEPT !.run = Catch(x.run, "wallet")]
    ELSE [run |-> [x.run EXCEPT !.pc = "sign", !.walletInserts = @ + 1],
          st |-> [x.st EXCEPT !.walletData = createWalletData(@, NormalizedWallet(x.run))]]

\* a signing step that signs whatever the validation result
StepSignAlways(x) ==
    LET voucher == [taskCode |-> achievementNumberToTaskCode(AchievementOf(x.run)),
                    wallet |-> NormalizedWallet(x.run)]
        signature == signVoucher(ISSUER_PRIVATE_KEY, CONTRACT_ADDRESS, CHAIN_ID, voucher)
    IN  [run |-> [x.run EXCEPT !.pc = "insert", !.voucher = Some(voucher),
                                !.signature = Some(signature), !.signs = @ + 1],
         st |-> [x.st EXCEPT !.signLog = Append(@, signature)]]

StepSign(x) ==
    LET taskCode == achievementNumberToTaskCode(AchievementOf(x.run))
        voucher == [taskCode |-> taskCode, wallet |-> NormalizedWallet(x.run)]
        signature == signVoucher(ISSUER_PRIVATE_KEY, CONTRACT_ADDRESS, CHAIN_ID, voucher)
    IN  IF Get(x.run.results).passed
        THEN IF x.run.fault = "sign" THEN [x EXCEPT !.run = Catch(x.run, "sign")]
             ELSE [run |-> [x.run EXCEPT !.pc = "insert", !.voucher = Some(voucher),
                                         !.signature = Some(signature), !.signs = @ + 1],
                   st |-> [x.st EXCEPT !.signLog = Append(@, signature)]]
        ELSE [x EXCEPT !.run.pc = "insert"]

StepInsert(x) ==
    LET req == x.run.req
        validationResult == Get(x.run.results)
        completion ==
            [wallet_address |-> NormalizedWallet(x.run),
             achievement_number |-> AchievementOf(x.run),
             task_code |-> achievementNumberToTaskCode(AchievementOf(x.run)),
             submission_type |-> req.submissionType,
             score |-> validationResult.score,
             max_score |-> validationResult.maxScore,
             passed |-> validationResult.passed,
             voucher_signature |-> x.run.signature]
    IN  IF x.run.fault = "insert" THEN [x EXCEPT !.run = Catch(x.run, "insert")]
        ELSE
        [run |-> [x.run EXCEPT
                     !.pc = "done", !.status = 200, !.inserts = @ + 1,
                     !.rowAt = Len(x.st.completions) + 1,
                     !.success = validationResult.passed,
                     !.chainId = Some(ResponseChainId(req.submissionType, req.submissionData)),
                     !.error = IF validationResult.passed THEN "" ELSE validationResult.error],
         st |-> [x.st EXCEPT !.completions = createTrainingCompletion(@, completion)]]

\* a handler that calls the validator again whenever it threw
AdvanceRetrying(x, time, world) ==
    LET Retry(y) ==
            IF x.run.pc = "validate" /\ y.run.logged = "validator"
            THEN [y EXCEPT !.run = [x.run EXCEPT !.fetches = y.run.fetches,
                                                 !.validatorCalls = y.run.validatorCalls]]
            ELSE y
    IN  Retry(CASE x.run.pc = "start" -> StepShape(x)
                [] x.run.pc = "gate" -> StepGate(x)
                [] x.run.pc = "validate" -> StepValidate(x, time, world)
                [] x.run.pc = "wallet" -> StepWallet(x)
                [] x.run.pc = "sign" -> StepSign(x)
                [] x.run.pc = "insert" -> StepInsert(x)
                [] OTHER -> x)

\* the handler's next step
Advance(x, time, world) ==
    CASE x.run.pc = "start" -> StepShape(x)
      [] x.run.pc = "gate" -> StepGate(x)
      [] x.run.pc = "validate" -> StepValidate(x, time, world)
      [] x.run.pc = "wallet" -> StepWallet(x)
      [] x.run.pc = "sign" -> StepSign(x)
      [] x.run.pc = "insert" -> StepInsert(x)
      [] OTHER -> x

\* the handler run from where it is to its response
RECURSIVE RunToEnd(_, _, _)
RunToEnd(x, time, world) ==
    IF x.run.pc = "done" THEN x ELSE RunToEnd(Advance(x, time, world), time, world)

(***************************************************************************)
(* Inputs of the API specifications                                        *)
(***************************************************************************)
Addr(id, form) == [id |-> id, form |-> form]

Q1 == Question("q1", 6, "string", <<"A">>, <<>>, <<>>, <<>>)
Q2 == Question("q2", 6, "concept-matching", <<>>, <<<<1, 1>>, <<2, 2>>>>, <<>>, <<>>)

\* quiz-data.json as served: achievement 0001 with two questions, 80% to pass
QuizDocument == A("0","0","0","1") :> [questions |-> <<Q1, Q2>>, passingScore |-> 80]

\* secret-answers.json as served
SecretDocument == (A("1","0","0","1") :> <<"F", "S">>) @@ (LAUNCH_ACHIEVEMENT :> <<"F", "S">>)

EmptyDocument == <<>>

Fetched(ok, doc) == [ok |-> ok, doc |-> doc]

OK == Rpc(FALSE, TRUE, "", "data")

\* a chain on which every probe of every verifier succeeds for wallet `owner`
GoodChain(owner, factory) ==
    [receipt |-> OK, status |-> "0x1", to |-> factory, contractAddress |-> TRUE,
     log |-> "event", logCreator |-> owner, erc20 |-> <<OK, OK, OK, OK>>,
     claimant |-> OK, claimantIs |-> owner,
     stakingToken |-> OK, totalStaked |-> OK, maxSupply |-> OK, totalMinted |-> OK,
     reveal |-> OK, commitments |-> OK, storage |-> OK,
     tx |-> OK, txFrom |-> Addr(owner, "lower"), txBlockNumber |-> Some(16)]

\* a chain that does not know the transaction
EmptyChain == [GoodChain(1, "Other") EXCEPT !.receipt = Rpc(FALSE, TRUE, "", "null"),
                                            !.tx = Rpc(FALSE, TRUE, "", "null"),
                                            !.claimant = Rpc(FALSE, TRUE, "", "0x")]

GoodNet == [testnet |-> GoodChain(1, "FactoryTestnet"), mainnet |-> GoodChain(1, "FactoryMainnet")]
EmptyNet == [testnet |-> EmptyChain, mainnet |-> EmptyChain]

World(quiz, secret, net) == [quiz |-> quiz, secret |-> secret, net |-> net]

\* what the outside may answer during one request
Worlds ==
    {World(Fetched(TRUE, QuizDocument), Fetched(TRUE, SecretDocument), GoodNet),
     World(Fetched(TRUE, EmptyDocument), Fetched(TRUE, EmptyDocument), EmptyNet),
     World(Fetched(FALSE, EmptyDocument), Fetched(FALSE, EmptyDocument), EmptyNet)}

QuizEnvelope(type, pairs) == Answer("envelope", type, "ok", <<>>, pairs, <<>>, <<>>)

\* answers maps for the two questions of QuizDocument
AllCorrect ==
    ("q1" :> PlainAnswer(<<"a">>)) @@
    ("q2" :> QuizEnvelope("concept-matching", <<<<1, 1>>, <<2, 2>>>>))
HalfCorrect ==
    ("q1" :> PlainAnswer(<<"A">>)) @@
    ("q2" :> QuizEnvelope("concept-matching", <<<<1, 1>>, <<2, 1>>>>))
NoneCorrect == ("q1" :> PlainAnswer(<<"B">>)) @@ ("q2" :> BadJsonAnswer)

Secret(text) == [kind |-> "string", text |-> text]

\* a chain id the router does not recognize
OTHER_CHAIN_ID == 1

\* (achievementNumber, submissionType, submissionData) of the well-formed requests
Payloads ==
    {<<A("0","0","0","1"), "quiz", QuizData(Some(AllCorrect))>>,
     <<A("0","0","0","1"), "quiz", QuizData(Some(HalfCorrect))>>,
     <<A("0","0","0","1"), "quiz", QuizData(Some(NoneCorrect))>>,
     <<A("1","0","0","1"), "secret", SecretData(Secret(<<" ", "F", "S", " ">>))>>,
     <<A("0","0","0","5"), "transaction",
       TransactionData(TxHash, Some(TESTNET_CHAIN_ID), Some(Addr(1, "lower")), "factory")>>,
     <<A("0","0","0","5"), "transaction",
       TransactionData(TxHash, Some(MAINNET_CHAIN_ID), Some(Addr(1, "lower")), "factory")>>,
     <<A("0","0","0","5"), "transaction",
       TransactionData(TxHash, Some(OTHER_CHAIN_ID), Some(Addr(1, "lower")), "factory")>>,
     <<A("0","0","0","5"), "transaction",
       TransactionData(TxHash, None, Some(Addr(1, "lower")), "factory")>>,
     <<A("0","0","4","6"), "contract", ContractData(Some(Addr(3, "checksum")), None)>>}

SubmitterWallets == {Addr(1, "lower"), Addr(1, "checksum"), Addr(2, "checksum")}

WellFormedRequests ==
    {Request(Some(w), Some(p[1]), TRUE, p[2], p[3]) : w \in SubmitterWallets, p \in Payloads}

\* requests that fail one of the checks on the request body
MalformedRequests ==
    LET ach == Some(A("0","0","0","1"))
        data == QuizData(Some(AllCorrect))
        wallet == Some(Addr(1, "checksum"))
    IN  {Request(w, ach, TRUE, "quiz", data) :
             w \in {None, Some(Addr(1, "badsum")), Some(Addr(1, "malformed"))}}
        \cup {Request(wallet, None, TRUE, "quiz", data),
              Request(wallet, Some(<<>>), TRUE, "quiz", data),
              Request(wallet, Some(<<"#">>), FALSE, "quiz", data),
              Request(wallet, Some(A("9","9","9","9")), TRUE, "quiz", data),
              Request(wallet, Some(A("0","0","0","0")), TRUE, "quiz", data)}
        \cup {Request(wallet, ach, TRUE, t, data) : t \in {"", "bogus", "secret", "custom"}}
        \cup {Request(wallet, Some(A("1","0","0","1")), TRUE, "quiz", data),
              Request(wallet, Some(A("0","0","0","5")), TRUE, "contract",
                      ContractData(Some(Addr(3, "checksum")), None)),
              Request(wallet, ach, TRUE, "quiz", NoData)}

Requests == WellFormedRequests \cup MalformedRequests

(***************************************************************************)
(* Specification Spec: the worker handles submit requests one at a time,   *)
(* each to its response; the clock advances between requests.              *)
(***************************************************************************)
NoRequest == Request(None, None, TRUE, "", NoData)
NoRun == [NewRun(NoRequest) EXCEPT !.pc = "idle"]

Globals ==
    [QUIZ_DATA |-> QUIZ_DATA, quizDataCache |-> quizDataCache,
     SECRET_ANSWERS |-> SECRET_ANSWERS, secretAnswersCache |-> secretAnswersCache]

Shared ==
    [completions |-> completions, walletData |-> walletData, signLog |-> signLog,
     globals |-> Globals]

\* the shared state becomes st
Store(st) ==
    /\ completions' = st.completions
    /\ walletData' = st.walletData
    /\ signLog' = st.signLog
    /\ QUIZ_DATA' = st.globals.QUIZ_DATA
    /\ quizDataCache' = st.globals.quizDataCache
    /\ SECRET_ANSWERS' = st.globals.SECRET_ANSWERS
    /\ secretAnswersCache' = st.globals.secretAnswersCache

(***************************************************************************)
(* PlunderAcademyTokenFactory                                              *)
(*                                                                         *)
(* Token addresses are the factory's nonce at creation: CREATE derives the *)
(* address from the creating account and its nonce, a contract's nonce     *)
(* starts at 1 and grows by one with each creation that is not reverted.   *)
(* The token's constructor is outside the factory's file; it is taken to   *)
(* return or to revert (constructed).  block.timestamp is left out of the  *)
(* event.                                                                  *)
(***************************************************************************)
Creators == {1, 2}

MAX_INITIAL_SUPPLY == 1000000000

\* the factory after its deployment
FactoryDeployed ==
    /\ totalTokensCreated = 0
    /\ userTokens = [u \in Creators |-> <<>>]
    /\ allTokens = <<>>
    /\ factoryNonce = 1
    /\ TokenCreated = <<>>
    /\ factoryCall = [n |-> 0, sender |-> 0, name |-> <<>>, symbol |-> <<>>, initialSupply |-> 0,
                      error |-> "", returned |-> None]

FactoryCall(sender, name, symbol, initialSupply, error, returned) ==
    [n |-> factoryCall.n + 1, sender |-> sender, name |-> name, symbol |-> symbol,
     initialSupply |-> initialSupply, error |-> error, returned |-> returned]

factoryStorage == <<totalTokensCreated, userTokens, allTokens, factoryNonce, TokenCreated>>

\* createToken without the lower limit of the supply
createTokenAnySupply(sender, name, symbol, initialSupply, constructed) ==
    LET Revert(error) ==
            /\ factoryCall' = FactoryCall(sender, name, symbol, initialSupply, error, None)
            /\ UNCHANGED factoryStorage
    IN  IF ~(Len(name) > 0) THEN Revert("Name cannot be empty")
        ELSE IF ~(Len(symbol) > 0) THEN Revert("Symbol cannot be empty")
        ELSE IF ~(initialSupply <= MAX_INITIAL_SUPPLY) THEN Revert("Invalid supply")
        ELSE IF ~constructed THEN Revert("constructor")
        ELSE LET tokenAddress == factoryNonce
             IN  /\ factoryNonce' = factoryNonce + 1
                 /\ userTokens' = [userTokens EXCEPT ![sender] = Append(@, tokenAddress)]
                 /\ allTokens' = Append(allTokens, tokenAddress)
                 /\ totalTokensCreated' = totalTokensCreated + 1
                 /\ TokenCreated' = Append(TokenCreated,
                        [creator |-> sender, claimant |-> sender, tokenAddress |-> tokenAddress,
                         name |-> name, symbol |-> symbol, initialSupply |-> initialSupply])
                 /\ factoryCall' = FactoryCall(sender, name, symbol, initialSupply, "",
                                               Some(tokenAddress))

\* createToken(name, symbol, initialSupply), msg.sender = sender
createToken(sender, name, symbol, initialSupply, constructed) ==
    LET Revert(error) ==
            /\ factoryCall' = FactoryCall(sender, name, symbol, initialSupply, error, None)
            /\ UNCHANGED factoryStorage
    IN  IF ~(Len(name) > 0) THEN Revert("Name cannot be empty")
        ELSE IF ~(Len(symbol) > 0) THEN Revert("Symbol cannot be empty")
        ELSE IF ~(initialSupply > 0 /\ initialSupply <= MAX_INITIAL_SUPPLY)
        THEN Revert("Invalid supply")
        ELSE IF ~constructed THEN Revert("constructor")
        ELSE LET tokenAddress == factoryNonce
             IN  /\ factoryNonce' = factoryNonce + 1
                 /\ userTokens' = [userTokens EXCEPT ![sender] = Append(@, tokenAddress)]
                 /\ allTokens' = Append(allTokens, tokenAddress)
                 /\ totalTokensCreated' = totalTokensCreated + 1
                 /\ TokenCreated' = Append(TokenCreated,
                        [creator |-> sender, claimant |-> sender, tokenAddress |-> tokenAddress,
                         name |-> name, symbol |-> symbol, initialSupply |-> initialSupply])
                 /\ factoryCall' = FactoryCall(sender, name, symbol, initialSupply, "",
                                               Some(tokenAddress))

getUserTokens(user) == userTokens[user]

InitWorker ==
    /\ completions = <<>>
    /\ walletData = {}
    /\ signLog = <<>>
    /\ QUIZ_DATA = <<>>
    /\ quizDataCache = None
    /\ SECRET_ANSWERS = <<>>
    /\ secretAnswersCache = None
    /\ now = 0
    /\ last = NoRun
    /\ handled = 0

InitPure == vIn = <<>> /\ vOut = <<>>

InitRegistryIdle ==
    /\ isIssuer = {}
    /\ completed = {}
    /\ balances = <<>>
    /\ hasTokenId = {}
    /\ walletTokenIds = <<>>
    /\ paused = FALSE
    /\ lastCall = <<>>

Init == InitWorker /\ inflight = <<>> /\ InitPure /\ InitRegistryIdle /\ FactoryDeployed

\* POST /submit, from the request to the response
Submit(req, world) ==
    /\ handled < MaxRequests
    /\ LET Finish(x) == last' = x.run /\ Store(x.st)
       IN  Finish(RunToEnd([run |-> NewRun(req), st |-> Shared], now, world))
    /\ handled' = handled + 1
    /\ UNCHANGED <<now, inflight, pureVars, regVars, factoryVars>>

TickStep == CACHE_DURATION

\* time passes
Tick ==
    /\ now < MaxTicks * TickStep
    /\ now' = now + TickStep
    /\ UNCHANGED <<completions, walletData, signLog, QUIZ_DATA, quizDataCache,
                   SECRET_ANSWERS, secretAnswersCache, last, handled, inflight,
                   pureVars, regVars, factoryVars>>

Next ==
    \/ \E req \in Requests, world \in Worlds : Submit(req, world)
    \/ Tick

Spec == Init /\ [][Next]_vars

(***************************************************************************)
(* Properties of the sequential worker (Spec)                              *)
(***************************************************************************)
\* the step is a submit request handled from start to response
Handled == handled' = handled + 1

\* the pair a well-formed request is for
WalletOf(req) == normalizeAddress(Get(req.walletAddress))
NumberOf(req) == Get(req.achievementNumber)

PassedRows(rows, wallet, number) ==
    {i \in DOMAIN rows : /\ rows[i].wallet_address = wallet
                          /\ rows[i].achievement_number = number
                          /\ rows[i].passed}

\* the value of a string of four decimal digits
DecimalValue(s) == 1000 * DigitVal(s[1]) + 100 * DigitVal(s[2]) + 10 * DigitVal(s[3]) + DigitVal(s[4])

\* the modules' globals and the store are as before the step
CachesUnchanged == UNCHANGED <<QUIZ_DATA, quizDataCache, SECRET_ANSWERS, secretAnswersCache>>
StoreUnchanged == UNCHANGED <<completions, walletData, signLog>>

C4_VoucherIffPassed ==
    /\ \A i \in DOMAIN completions :
           IsSome(completions[i].voucher_signature) <=> completions[i].passed
    /\ IsSome(last.voucher) <=> last.success
    /\ IsSome(last.signature) <=> last.success
    /\ last.signs = (IF last.success THEN 1 ELSE 0)
    /\ IsSome(last.results) =>
           LET passed == Get(last.results).passed
               row == completions[Len(completions)]
           IN  /\ last.success <=> passed
               /\ row.passed <=> passed
               /\ row.voucher_signature = last.signature
               /\ passed =>
                      /\ Get(last.voucher) =
                             [taskCode |-> DecimalValue(NumberOf(last.req)),
                              wallet |-> Addr(Get(last.req.walletAddress).id, "checksum")]
                      /\ Get(last.signature).taskCode = Get(last.voucher).taskCode
                      /\ Get(last.signature).wallet = Get(last.voucher).wallet
                      /\ signLog[Len(signLog)] = Get(last.signature)

\* a failed attempt is stored unsigned, then a passing one from a lowercase address is signed
C4_Witness ==
    /\ Len(completions) = 2
    /\ ~completions[1].passed /\ completions[1].voucher_signature = None
    /\ last.success
    /\ last.req.walletAddress = Some(Addr(1, "lower"))
    /\ Get(last.voucher) = [taskCode |-> 5, wallet |-> Addr(1, "checksum")]

\* C5: a well-formed request for a pair that has a row with passed = true is answered
\* 409 with no validator run, no fetch, no signature and no row inserted.
C5_PassedPairConflicts ==
    [][(/\ Handled
        /\ ShapeError(last'.req) = ""
        /\ PassedRows(completions, WalletOf(last'.req), NumberOf(last'.req)) # {})
       => /\ last'.status = 409
          /\ last'.validatorCalls = 0 /\ last'.fetches = 0
          /\ last'.signs = 0 /\ last'.inserts = 0 /\ last'.walletInserts = 0
          /\ last'.voucher = None /\ last'.signature = None
          /\ StoreUnchanged /\ CachesUnchanged]_vars

\* a passed pair is submitted again, the address in the other letter case, with a
\* payload that would fail
C5_Witness ==
    /\ last.status = 409
    /\ last.gateReads = 1
    /\ last.req.walletAddress = Some(Addr(1, "lower"))
    /\ last.req.submissionData = QuizData(Some(NoneCorrect))
    /\ Len(completions) = 1

\* the requests C6 speaks of
C6_Rejectable(req) ==
    \/ ~isValidEthereumAddress(req.walletAddress)
    \/ ~IsSome(req.achievementNumber)
    \/ ~req.numberIsString
    \/ NumberOf(req) \notin DOMAIN ACHIEVEMENT_TYPES
    \/ req.submissionType # ACHIEVEMENT_TYPES[NumberOf(req)]
    \/ ~req.submissionData.present

\* C6: a request with a malformed wallet, an achievement outside the catalog, a kind
\* other than the achievement's, or no payload gets a 4xx response with no
\* prior-completion read, no validator run and no external call, and leaves the
\* completion store and the wallet table as they were.
C6_MalformedRejectedFirst ==
    [][(Handled /\ C6_Rejectable(last'.req))
       => /\ last'.status \in 400..499
          /\ last'.gateReads = 0 /\ last'.validatorCalls = 0 /\ last'.fetches = 0
          /\ last'.signs = 0 /\ last'.inserts = 0 /\ last'.walletInserts = 0
          /\ StoreUnchanged /\ CachesUnchanged]_vars

\* a kind mismatch is rejected while the store holds a row
C6_Witness ==
    /\ last.status = 400
    /\ last.error = "Invalid submission type for achievement"
    /\ Len(completions) = 1
    /\ last.gateReads = 0

\* C7: every request that passes the body checks and finds no passed row for its pair
\* adds exactly one row for the pair, holding the result's passed flag and score, and
\* leaves the rows before it as they were.
C7_EveryAttemptPersisted ==
    [][(/\ Handled
        /\ ShapeError(last'.req) = ""
        /\ PassedRows(completions, WalletOf(last'.req), NumberOf(last'.req)) = {})
       => /\ Len(completions') = Len(completions) + 1
          /\ SubSeq(completions', 1, Len(completions)) = completions
          /\ IsSome(last'.results)
          /\ LET row == completions'[Len(completions')]
             IN  /\ row.wallet_address = WalletOf(last'.req)
                 /\ row.achievement_number = NumberOf(last'.req)
                 /\ row.passed = Get(last'.results).passed
                 /\ row.score = Get(last'.results).score]_vars

(***************************************************************************)
(* Specification SpecConc: MaxHandlers requests are in flight at once.     *)
(* Each handler runs the code between two awaits as one step; the steps of *)
(* different handlers interleave freely on the shared store and globals.   *)
(***************************************************************************)
Handlers == 1..MaxHandlers

ConcurrentRequests ==
    {Request(Some(Addr(1, "checksum")), Some(A("0","0","0","1")), TRUE, "quiz",
             QuizData(Some(AllCorrect))),
     Request(Some(Addr(1, "lower")), Some(A("0","0","0","1")), TRUE, "quiz",
             QuizData(Some(AllCorrect))),
     Request(Some(Addr(1, "checksum")), Some(A("0","0","0","1")), TRUE, "quiz",
             QuizData(Some(HalfCorrect))),
     Request(Some(Addr(2, "checksum")), Some(A("1","0","0","1")), TRUE, "secret",
             SecretData(Secret(<<"F", "S">>)))}

InitConc ==
    /\ InitWorker /\ InitPure /\ InitRegistryIdle /\ FactoryDeployed
    /\ inflight = [h \in Handlers |-> NoRun]

\* a request arrives at an idle handler
Receive(h, req) ==
    /\ inflight[h].pc = "idle"
    /\ inflight' = [inflight EXCEPT ![h] = NewRun(req)]
    /\ UNCHANGED <<completions, walletData, signLog, QUIZ_DATA, quizDataCache,
                   SECRET_ANSWERS, secretAnswersCache, now, last, handled,
                   pureVars, regVars, factoryVars>>

\* a handler runs to its next await
Step(h, world) ==
    /\ inflight[h].pc \notin {"idle", "done"}
    /\ LET Yield(x) == inflight' = [inflight EXCEPT ![h] = x.run] /\ Store(x.st)
       IN  Yield(Advance([run |-> inflight[h], st |-> Shared], now, world))
    /\ UNCHANGED <<now, last, handled, pureVars, regVars, factoryVars>>

NextConc ==
    \/ \E h \in Handlers, req \in ConcurrentRequests : Receive(h, req)
    \/ \E h \in Handlers, world \in Worlds : Step(h, world)

SpecConc == InitConc /\ [][NextConc]_vars

\* handlers g and h have each inserted a passed row for the same pair
BothPassed(g, h) ==
    /\ g # h
    /\ inflight[g].rowAt > 0 /\ inflight[h].rowAt > 0
    /\ completions[inflight[g].rowAt].passed /\ completions[inflight[h].rowAt].passed
    /\ completions[inflight[g].rowAt].wallet_address = completions[inflight[h].rowAt].wallet_address
    /\ completions[inflight[g].rowAt].achievement_number
           = completions[inflight[h].rowAt].achievement_number

\* C2: the gate reads and the insert is a later step, so two requests for one pair can
\* both be signed and both store a passed row; whenever that has happened each of the
\* two read the store before the other's row was in it.
C2_DuplicateOnlyByRace ==
    \A g, h \in Handlers :
        BothPassed(g, h) =>
            /\ inflight[g].readAt < inflight[h].rowAt
            /\ inflight[h].readAt < inflight[g].rowAt
            /\ inflight[g].signs = 1 /\ inflight[h].signs = 1

\* two concurrent passing requests for one pair: two passed rows, two signatures of the
\* same voucher, both responses successful
C2_Witness ==
    /\ BothPassed(1, 2)
    /\ inflight[1].status = 200 /\ inflight[1].success
    /\ inflight[2].status = 200 /\ inflight[2].success
    /\ inflight[1].readAt = 0 /\ inflight[2].readAt = 0
    /\ Len(signLog) = 2 /\ signLog[1] = signLog[2]

(***************************************************************************)
(* TrainingRegistry (the contract behind CONTRACT_ADDRESS on chain         *)
(* CHAIN_ID).  Accounts are named by the id of their address; account 0 is *)
(* the owner.  A call that reverts leaves the contract's storage as it     *)
(* was and is recorded in lastCall with the reason of the revert:          *)
(*   "paused" / "not paused"   the Pausable modifiers                      *)
(*   "not owner"               onlyOwner                                   *)
(*   "bad signature"           ECDSA.recover on bytes that are no signature*)
(* and the strings of the contract's own require statements.               *)
(***************************************************************************)
OWNER == 0
Accounts == {OWNER, 1, 2}
TaskCodes == {1, 5}
Keys == {ISSUER_PRIVATE_KEY, "OtherKey"}

\* the address of the account that holds a private key
KeyAddress(key) == [key |-> key]
Nobody == [key |-> "nobody"]

MalformedSignature == [key |-> "", domain |-> Domain(0, ""), taskCode |-> 0, wallet |-> Addr(0, "malformed")]

\* signatures an account may present: vouchers signed by either key, for the registry's
\* chain or another, and bytes that are no signature
Signatures ==
    {signVoucher(k, CONTRACT_ADDRESS, c, [taskCode |-> t, wallet |-> Addr(w, "checksum")]) :
         k \in Keys, c \in {CHAIN_ID, MAINNET_CHAIN_ID}, t \in TaskCodes, w \in {1, 2}}
    \cup {MalformedSignature}

\* a recovery over a digest that leaves out msg.sender
RecoverWithoutSender(taskCode, sender, signature) ==
    IF /\ signature.domain = Domain(CHAIN_ID, CONTRACT_ADDRESS)
       /\ signature.taskCode = taskCode
    THEN [key |-> signature.key]
    ELSE [key |-> "nobody"]

\* ECDSA.recover(toTypedDataHash(_domainSeparatorV4(), structHash), signature) with
\* structHash over (taskCode, msg.sender)
Recover(taskCode, sender, signature) ==
    IF /\ signature.domain = Domain(CHAIN_ID, CONTRACT_ADDRESS)
       /\ signature.taskCode = taskCode
       /\ signature.wallet.id = sender
    THEN KeyAddress(signature.key)
    ELSE Nobody

Call(fn, sender, taskCode, error) ==
    [n |-> lastCall.n + 1, fn |-> fn, sender |-> sender, taskCode |-> taskCode, error |-> error,
     signature |-> None]

balanceOf(account, id) == balances[<<account, id>>]
hasAchievement(wallet, tokenId) == <<wallet, tokenId>> \in hasTokenId
getWalletAchievements(wallet) == walletTokenIds[wallet]

storage == <<isIssuer, completed, balances, hasTokenId, walletTokenIds, paused>>

Deployed ==
    /\ isIssuer = {}
    /\ completed = {}
    /\ balances = [p \in Accounts \X TaskCodes |-> 0]
    /\ hasTokenId = {}
    /\ walletTokenIds = [w \in Accounts |-> <<>>]
    /\ paused = FALSE
    /\ lastCall = [n |-> 0, fn |-> "initialize", sender |-> OWNER, taskCode |-> 0, error |-> "",
                   signature |-> None]

Reverts(fn, sender, taskCode, error) ==
    /\ lastCall' = Call(fn, sender, taskCode, error)
    /\ UNCHANGED storage

\* an allowlist that any account may change
setIssuerByAnyone(sender, issuer, allowed) ==
    /\ isIssuer' = IF allowed THEN isIssuer \cup {issuer} ELSE isIssuer \ {issuer}
    /\ lastCall' = Call("setIssuer", sender, 0, "")
    /\ UNCHANGED <<completed, balances, hasTokenId, walletTokenIds, paused>>

setIssuer(sender, issuer, allowed) ==
    IF sender # OWNER THEN Reverts("setIssuer", sender, 0, "not owner")
    ELSE /\ isIssuer' = IF allowed THEN isIssuer \cup {issuer} ELSE isIssuer \ {issuer}
         /\ lastCall' = Call("setIssuer", sender, 0, "")
         /\ UNCHANGED <<completed, balances, hasTokenId, walletTokenIds, paused>>

pause(sender) ==
    IF sender # OWNER THEN Reverts("pause", sender, 0, "not owner")
    ELSE IF paused THEN Reverts("pause", sender, 0, "paused")
    ELSE /\ paused' = TRUE
         /\ lastCall' = Call("pause", sender, 0, "")
         /\ UNCHANGED <<isIssuer, completed, balances, hasTokenId, walletTokenIds>>

unpause(sender) ==
    IF sender # OWNER THEN Reverts("unpause", sender, 0, "not owner")
    ELSE IF ~paused THEN Reverts("unpause", sender, 0, "not paused")
    ELSE /\ paused' = FALSE
         /\ lastCall' = Call("unpause", sender, 0, "")
         /\ UNCHANGED <<isIssuer, completed, balances, hasTokenId, walletTokenIds>>

\* a completion flag that is never seen
NeverCompleted(flags, wallet, taskCode) == FALSE

\* completed[wallet][taskCode]
IsCompleted(flags, wallet, taskCode) == <<wallet, taskCode>> \in flags

\* a mint that leaves the achievement index alone
MintUnindexed(to, id) ==
    /\ balances' = [balances EXCEPT ![<<to, id>>] = @ + 1]
    /\ UNCHANGED <<hasTokenId, walletTokenIds>>

\* _update(address(0), to, [id], [1]): the balance, then the achievement index
Mint(to, id) ==
    /\ balances' = [balances EXCEPT ![<<to, id>>] = @ + 1]
    /\ IF <<to, id>> \notin hasTokenId
       THEN /\ hasTokenId' = hasTokenId \cup {<<to, id>>}
            /\ walletTokenIds' = [walletTokenIds EXCEPT ![to] = Append(@, id)]
       ELSE UNCHANGED <<hasTokenId, walletTokenIds>>

submitVoucher(sender, taskCode, signature) ==
    LET Ends(error) ==
            lastCall' = [Call("submitVoucher", sender, taskCode, error)
                             EXCEPT !.signature = Some(signature)]
        Revert(error) == Ends(error) /\ UNCHANGED storage
    IN  IF paused THEN Revert("paused")
        ELSE IF IsCompleted(completed, sender, taskCode) THEN Revert("already completed")
        ELSE IF signature = MalformedSignature THEN Revert("bad signature")
        ELSE IF Recover(taskCode, sender, signature) \notin isIssuer
        THEN Revert("invalid issuer")
        ELSE /\ completed' = completed \cup {<<sender, taskCode>>}
             /\ Mint(sender, taskCode)
             /\ Ends("")
             /\ UNCHANGED <<isIssuer, paused>>

\* safeTransferFrom(sender, to, id, 1, "") by the holder to another account
\* address(0)
ZeroAddress == 0 - 1

\* an _update hook without the soulbound require
UpdateUnguarded(from, to) == ""

\* the require at the head of _update: "" when it lets the update through
UpdateGuard(from, to) ==
    IF from = ZeroAddress \/ to = ZeroAddress THEN "" ELSE "SBT: non-transferable"

\* _removeWalletTokenId: the first entry equal to tokenId is overwritten with the last
\* entry and the list is popped
removeWalletTokenId(list, tokenId) ==
    IF \A i \in 1..Len(list) : list[i] # tokenId THEN list
    ELSE LET i == CHOOSE j \in 1..Len(list) :
                      list[j] = tokenId /\ \A k \in 1..(j - 1) : list[k] # tokenId
         IN  SubSeq([list EXCEPT ![i] = list[Len(list)]], 1, Len(list) - 1)

\* the body of _update after the require, for one unit of one id moved between two
\* accounts: super._update moves the balance, then the cached index follows
MoveBadge(from, to, id) ==
    LET moved == [balances EXCEPT ![<<from, id>>] = @ - 1, ![<<to, id>>] = @ + 1]
        gained == <<to, id>> \notin hasTokenId /\ moved[<<to, id>>] > 0
        hasAfterTo == IF gained THEN hasTokenId \cup {<<to, id>>} ELSE hasTokenId
        idsAfterTo == IF gained THEN [walletTokenIds EXCEPT ![to] = Append(@, id)]
                      ELSE walletTokenIds
        lost == <<from, id>> \in hasAfterTo /\ moved[<<from, id>>] = 0
    IN  /\ balances' = moved
        /\ hasTokenId' = IF lost THEN hasAfterTo \ {<<from, id>>} ELSE hasAfterTo
        /\ walletTokenIds' =
               IF lost THEN [idsAfterTo EXCEPT ![from] = removeWalletTokenId(@, id)]
               ELSE idsAfterTo

\* safeTransferFrom(from, to, id, 1, "") sent by the holder
safeTransferFrom(sender, to, id) ==
    IF UpdateGuard(sender, to) # ""
    THEN Reverts("safeTransferFrom", sender, id, UpdateGuard(sender, to))
    ELSE IF balances[<<sender, id>>] < 1
    THEN Reverts("safeTransferFrom", sender, id, "ERC1155InsufficientBalance")
    ELSE /\ MoveBadge(sender, to, id)
         /\ lastCall' = Call("safeTransferFrom", sender, id, "")
         /\ UNCHANGED <<isIssuer, completed, paused>>

\* one transaction sent to the registry
Transaction(call) ==
    /\ lastCall.n < MaxCalls
    /\ call
    /\ UNCHANGED <<apiVars, pureVars, factoryVars>>

InitRegistry == InitWorker /\ inflight = <<>> /\ InitPure /\ Deployed /\ FactoryDeployed

NextRegistry ==
    \/ \E sender \in {OWNER, 1}, k \in Keys, allowed \in BOOLEAN :
           Transaction(setIssuer(sender, KeyAddress(k), allowed))
    \/ \E sender \in {OWNER, 1} : Transaction(pause(sender))
    \/ \E sender \in {OWNER, 1} : Transaction(unpause(sender))
    \/ \E sender \in {1, 2}, t \in TaskCodes, s \in Signatures :
           Transaction(submitVoucher(sender, t, s))
    \/ \E sender \in {1, 2}, to \in {1, 2}, t \in TaskCodes :
           Transaction(safeTransferFrom(sender, to, t))

SpecRegistry == InitRegistry /\ [][NextRegistry]_vars

\* the step is a submitVoucher call for a pair that has succeeded before
RepeatedVoucher ==
    /\ lastCall'.n = lastCall.n + 1
    /\ lastCall'.fn = "submitVoucher"
    /\ <<lastCall'.sender, lastCall'.taskCode>> \in completed

\* what C3 says of every step but for the reason of the revert
C3_Frame ==
    /\ \A p \in Accounts \X TaskCodes : balances'[p] <= 1
    /\ completed \subseteq completed'
    /\ RepeatedVoucher => (lastCall'.error # "" /\ UNCHANGED storage)

\* C3 as stated: submitVoucher succeeds at most once per wallet and task code: no balance
\* exceeds 1, a completed flag is never cleared, and every call after the first success
\* reverts with "already completed" and changes nothing.
C3_AlreadyCompletedAlways ==
    [][C3_Frame /\ (RepeatedVoucher => lastCall'.error = "already completed")]_vars

\* C3, amended: ... every call after the first success reverts and changes nothing; the
\* reason is "already completed" unless the registry is paused, when it is the pause's.
C3_AtMostOnceUnlessPaused ==
    [][C3_Frame /\ (RepeatedVoucher =>
            lastCall'.error = IF paused THEN "paused" ELSE "already completed")]_vars

\* a wallet that has its badge presents a second voucher validly signed by an issuer
C3_Witness ==
    /\ lastCall.fn = "submitVoucher" /\ lastCall.error = "already completed"
    /\ lastCall.sender = 1 /\ lastCall.taskCode = 5
    /\ IsCompleted(completed, 1, 5) /\ balanceOf(1, 5) = 1
    /\ KeyAddress(ISSUER_PRIVATE_KEY) \in isIssuer
    /\ getWalletAchievements(1) = <<5>> /\ hasAchievement(1, 5)

(***************************************************************************)
(* Specification SpecValidate: one call of validateSubmission on an input  *)
(* drawn by Init.  vIn = [context, globals, time, world]; vOut is None     *)
(* before the call and Some(outcome) after it.                             *)
(***************************************************************************)
Context(achievementNumber, walletAddress, submissionType, submissionData) ==
    [achievementNumber |-> achievementNumber, walletAddress |-> walletAddress,
     rpcUrl |-> SelectRpcUrl(submissionType, submissionData),
     submissionType |-> submissionType, submissionData |-> submissionData]

VIn(context, globals, time, world) ==
    [context |-> context, globals |-> globals, time |-> time, world |-> world]

ColdGlobals ==
    [QUIZ_DATA |-> <<>>, quizDataCache |-> None,
     SECRET_ANSWERS |-> <<>>, secretAnswersCache |-> None]

\* both documents fetched at time 0
WarmGlobals ==
    [QUIZ_DATA |-> QuizDocument,
     quizDataCache |-> Some([data |-> QuizDocument, timestamp |-> 0]),
     SECRET_ANSWERS |-> SecretDocument,
     secretAnswersCache |-> Some([data |-> SecretDocument, timestamp |-> 0])]

Times == {0, LAUNCH_CUTOFF, LAUNCH_CUTOFF + 1}

Documents(doc) == {Fetched(TRUE, doc), Fetched(TRUE, EmptyDocument), Fetched(FALSE, EmptyDocument)}

Submitter == Addr(1, "checksum")

\* sequences over S of length 0..n
SeqsUpTo(S, n) == UNION {[1..k -> S] : k \in 0..n}

\* expected answers of n items, as a bank lists them: item i pairs concept i with
\* definition i, stands at position i, and is true iff i is odd
CanonPairs(n) == [i \in 1..n |-> <<i, i>>]
CanonSequence(n) == [i \in 1..n |-> i]
CanonClassifications(n) == [i \in 1..n |-> <<i, i % 2 = 1>>]

\* ids a user may submit
UserIds == {1, 2}

InteractiveQuestions ==
    {Question("q2", 6, "word-jumble", w, <<>>, <<>>, <<>>) : w \in {<<>>, <<"A", "B">>}}
    \cup {Question("q2", 6, "concept-matching", <<>>, CanonPairs(n), <<>>, <<>>) : n \in 0..MaxItems}
    \cup {Question("q2", 6, "timeline-builder", <<>>, <<>>, CanonSequence(n), <<>>) : n \in 0..MaxItems}
    \cup {Question("q2", 6, "true-false-statements", <<>>, <<>>, <<>>, CanonClassifications(n)) :
              n \in 0..MaxItems}
    \cup {Question("q2", 6, "drag-drop-puzzle", <<>>, <<>>, CanonSequence(n), <<>>) : n \in 0..MaxItems}
    \cup {Question("q2", 6, "concept-matching", <<>>, <<<<1, 1>>, <<1, 1>>>>, <<>>, <<>>),
          Question("q2", 6, "timeline-builder", <<>>, <<>>, <<2, 2>>, <<>>),
          Question("q2", 6, "true-false-statements", <<>>, <<>>, <<>>, <<<<1, TRUE>>, <<1, FALSE>>>>)}

\* the answers a user may give to an interactive question of type t: well-formed
\* envelopes of up to MaxItems + 1 items, and the ill-formed ones
AnswersTo(t) ==
    (CASE t = "word-jumble" ->
              {Answer("envelope", t, "ok", w, <<>>, <<>>, <<>>) :
                   w \in {<<>>, <<"a", "b">>, <<"B", "A">>}}
       [] t = "concept-matching" ->
              {Answer("envelope", t, "ok", <<>>, p, <<>>, <<>>) :
                   p \in SeqsUpTo(UserIds \X UserIds, MaxItems + 1)}
       [] t = "true-false-statements" ->
              {Answer("envelope", t, "ok", <<>>, <<>>, <<>>, c) :
                   c \in SeqsUpTo(UserIds \X BOOLEAN, MaxItems + 1)}
       [] OTHER ->
              {Answer("envelope", t, "ok", <<>>, <<>>, s, <<>>) :
                   s \in SeqsUpTo(UserIds, MaxItems + 1)})
    \cup {Answer("envelope", t, "absent", <<>>, <<>>, <<>>, <<>>),
          Answer("envelope", t, "garbage", <<>>, <<>>, <<>>, <<>>),
          Answer("envelope", "other", "ok", <<>>, <<>>, <<>>, <<>>),
          BadJsonAnswer, PlainAnswer(<<"A">>), MissingAnswer, NonStringAnswer}

\* a bank of the traditional question Q1 and one interactive question, the answers to
\* both, and the passing percentage
GradingInput(q, first, second, passingScore) ==
    VIn(Context(A("0","0","0","1"), Submitter, "quiz",
                QuizData(Some(("q1" :> first) @@ ("q2" :> second)))),
        ColdGlobals, 0,
        World(Fetched(TRUE, A("0","0","0","1") :>
                  [questions |-> <<Q1, q>>, passingScore |-> passingScore]),
              Fetched(FALSE, EmptyDocument), EmptyNet))


EmptyBanks ==
    {Fetched(TRUE, A("0","0","0","1") :> [questions |-> <<>>, passingScore |-> p]) : p \in {0, 80}}

\* answers an endpoint may give to one JSON-RPC call, other than data
BadAnswers ==
    {Rpc(TRUE, FALSE, "", "null"),              \* fetch rejects, or the body is not JSON
     Rpc(FALSE, FALSE, "", "data"),             \* non-OK status
     Rpc(FALSE, FALSE, "does not exist", "null"),
     Rpc(FALSE, TRUE, "generic", "null"),       \* JSON-RPC error object
     Rpc(FALSE, TRUE, "does not exist", "null"),
     Rpc(FALSE, TRUE, "", "null"),
     Rpc(FALSE, TRUE, "", "0x"),
     Rpc(FALSE, TRUE, "", "zero32"),
     Rpc(FALSE, TRUE, "", "blank")}

\* the good chain g, and g with the answer to one probe, or what it decodes to, changed
ChainVariants(g) ==
    {g}
    \cup {[g EXCEPT !.receipt = r] : r \in BadAnswers}
    \cup {[g EXCEPT !.tx = r] : r \in BadAnswers}
    \cup {[g EXCEPT !.claimant = r] : r \in BadAnswers}
    \cup {[g EXCEPT !.stakingToken = r] : r \in BadAnswers}
    \cup {[g EXCEPT !.totalStaked = r] : r \in BadAnswers}
    \cup {[g EXCEPT !.maxSupply = r] : r \in BadAnswers}
    \cup {[g EXCEPT !.totalMinted = r] : r \in BadAnswers}
    \cup {[g EXCEPT !.reveal = r] : r \in BadAnswers}
    \cup {[g EXCEPT !.commitments = r] : r \in BadAnswers}
    \cup {[g EXCEPT !.storage = r] : r \in BadAnswers}
    \cup {[g EXCEPT !.erc20[k] = r] : k \in 1..4, r \in BadAnswers}
    \cup {[g EXCEPT !.status = "0x0"], [g EXCEPT !.to = "Other"],
          [g EXCEPT !.contractAddress = FALSE], [g EXCEPT !.log = "none"],
          [g EXCEPT !.log = "malformed"], [g EXCEPT !.logCreator = 2],
          [g EXCEPT !.claimantIs = 2], [g EXCEPT !.txFrom = Addr(2, "lower")],
          [g EXCEPT !.txFrom = Addr(1, "malformed")],
          [g EXCEPT !.txBlockNumber = None]}                  \* known to the node, not mined

\* an endpoint that answers every call with a non-OK status
DeadChain ==
    LET down == Rpc(FALSE, FALSE, "", "null")
    IN  [GoodChain(1, "Other") EXCEPT
            !.receipt = down, !.tx = down, !.claimant = down, !.erc20 = <<down, down, down, down>>,
            !.stakingToken = down, !.totalStaked = down, !.maxSupply = down,
            !.totalMinted = down, !.reveal = down, !.commitments = down, !.storage = down]

\* both endpoints serve the same variant, each with its own factory; or one endpoint
\* serves the good chain and the other is down
Nets ==
    {[testnet |-> c,
      mainnet |-> IF c.to = "FactoryTestnet" THEN [c EXCEPT !.to = "FactoryMainnet"] ELSE c] :
         c \in ChainVariants(GoodChain(1, "FactoryTestnet"))}
    \cup {[testnet |-> GoodChain(1, "FactoryTestnet"), mainnet |-> DeadChain],
          [testnet |-> DeadChain, mainnet |-> GoodChain(1, "FactoryMainnet")]}

\* hashes the pattern accepts
GoodHashes == {TxHash, Hash(<<"0", "x">>, "F", 64), Hash(<<"0", "x", "9">>, "c", 63)}

\* hashes one character away from an accepted one, and other strings
BadHashes ==
    {Hash(<<"0", "x">>, "a", 63), Hash(<<"0", "x">>, "a", 65), Hash(<<"0", "x">>, "g", 64),
     Hash(<<"0", "X">>, "a", 64), Hash(<<>>, "a", 64), Hash(<<>>, "a", 66),
     Hash(<<"0", "x", " ">>, "a", 63), Hash(<<" ", "0", "x">>, "a", 64),
     Hash(<<"0", "x">>, "a", 64) \o <<"\n">>, <<"0", "x">>, <<>>}

Claimants == {Some(Addr(1, "lower")), Some(Addr(2, "checksum")), Some(Addr(1, "nonstring")), None}

TransactionCases ==
    {<<A("0","0","0","5"), TransactionData(TxHash, c, w, m)>> :
         c \in {Some(TESTNET_CHAIN_ID), Some(MAINNET_CHAIN_ID), Some(1), None},
         w \in Claimants, m \in {"", "factory", "deployment", "other"}}
    \cup {<<n, TransactionData(TxHash, Some(TESTNET_CHAIN_ID), w, "")>> :
              n \in {A("0","0","2","5"), A("0","0","3","3"), A("0","0","4","3"), A("0","0","0","2")},
              w \in Claimants}
    \cup {<<A("0","0","0","5"), TransactionData(h, None, Some(Addr(1, "lower")), "factory")>> :
              h \in BadHashes \cup {NoHash}}
    \cup {<<A("0","0","0","2"),
            TransactionData(h, Some(TESTNET_CHAIN_ID), Some(Addr(1, "lower")), "")>> :
              h \in BadHashes \cup GoodHashes}

ContractCases ==
    {<<n, ContractData(a, Some(MAINNET_CHAIN_ID))>> :
         n \in {A("0","0","4","6"), A("0","0","4","7")},
         a \in {Some(Addr(3, "checksum")), Some(Addr(3, "malformed")), None}}

NoDocument == Fetched(FALSE, EmptyDocument)

\* a quiz of Q1 and one interactive question, graded once
InitGrading ==
    \E q \in InteractiveQuestions, passingScore \in {50, 100},
       first \in {PlainAnswer(<<"a">>), PlainAnswer(<<"B">>)} :
        \E second \in AnswersTo(q.ctype) :
            vIn = GradingInput(q, first, second, passingScore)

\* a quiz submission against the cache and the document source
InitQuiz ==
    \E number \in {A("0","0","0","1"), A("0","0","0","2")},
       answers \in {Some(AllCorrect), Some(HalfCorrect), Some(NoneCorrect), None,
                    Some("q1" :> NonStringAnswer)},
       globals \in {ColdGlobals, WarmGlobals}, time \in Times,
       quiz \in Documents(QuizDocument) \cup EmptyBanks :
        vIn = VIn(Context(number, Submitter, "quiz", QuizData(answers)), globals, time,
                  World(quiz, NoDocument, EmptyNet))

\* the bank of achievement 0001 as the README's Quiz Configuration table describes it:
\* 16 questions of 6 points, one of them a word jumble, passing score 80
BankIds ==
    <<"q01", "q02", "q03", "q04", "q05", "q06", "q07", "q08",
      "q09", "q10", "q11", "q12", "q13", "q14", "q15", "q16">>
Traditional == 1..15
Bank0001 ==
    [questions |->
         [i \in 1..16 |->
              IF i \in Traditional
              THEN Question(BankIds[i], 6, "string", <<"A">>, <<>>, <<>>, <<>>)
              ELSE Question(BankIds[i], 6, "word-jumble", <<"A", "B">>, <<>>, <<>>, <<>>)],
     passingScore |-> 80]

\* a submission to Bank0001: the traditional questions in `right` answered correctly, the
\* others answered wrongly or (skip) not at all; the word jumble solved, missed or skipped
BankAnswers(right, skip, jumble) ==
    [id \in {BankIds[i] : i \in 1..16} |->
        LET i == CHOOSE j \in 1..16 : BankIds[j] = id
        IN  IF i \in right THEN PlainAnswer(<<"a">>)
            ELSE IF i \in Traditional THEN (IF skip THEN MissingAnswer ELSE PlainAnswer(<<"B">>))
            ELSE IF jumble = "solved"
            THEN Answer("envelope", "word-jumble", "ok", <<"a", "b">>, <<>>, <<>>, <<>>)
            ELSE IF jumble = "missed"
            THEN Answer("envelope", "word-jumble", "ok", <<"b", "a">>, <<>>, <<>>, <<>>)
            ELSE MissingAnswer]

BankInput(right, skip, jumble) ==
    VIn(Context(A("0","0","0","1"), Submitter, "quiz", QuizData(Some(BankAnswers(right, skip, jumble)))),
        ColdGlobals, 0,
        World(Fetched(TRUE, A("0","0","0","1") :> Bank0001), NoDocument, EmptyNet))

\* the sets of correctly answered traditional questions that are drawn: the first k and
\* the last k, for every k
RightSets == {1..k : k \in 0..15} \cup {(16 - k)..15 : k \in 0..15}
Jumbles == {"solved", "missed", "skipped"}

InitBank ==
    \E right \in RightSets, skip \in BOOLEAN, jumble \in Jumbles :
        vIn = BankInput(right, skip, jumble)

InitSecret ==
    \E number \in {A("1","0","0","1"), LAUNCH_ACHIEVEMENT, A("1","0","0","2")},
       secret \in {Secret(<<" ", "F", "S", " ">>), Secret(<<"f", "s">>), Secret(<<>>), NoSecret,
                   Secret(<<"F", "S">>), Secret(<<"F", " ", "S">>), Secret(<<"F", "s">>),
                   Secret(<<" ", " ">>), Secret(<<"F", "S", "\n">>)},
       globals \in {ColdGlobals, WarmGlobals}, time \in Times,
       doc \in Documents(SecretDocument) :
        vIn = VIn(Context(number, Submitter, "secret", SecretData(secret)), globals, time,
                  World(NoDocument, doc, EmptyNet))

InitOnChain ==
    \E net \in Nets :
        \/ \E c \in TransactionCases :
               vIn = VIn(Context(c[1], Submitter, "transaction", c[2]), ColdGlobals, 0,
                         World(NoDocument, NoDocument, net))
        \/ \E c \in ContractCases :
               vIn = VIn(Context(c[1], Submitter, "contract", c[2]), ColdGlobals, 0,
                         World(NoDocument, NoDocument, net))

InitOther ==
    \E t \in {"custom", "bogus"} :
        vIn = VIn(Context(A("0","0","0","1"), Submitter, t, QuizData(Some(AllCorrect))),
                  ColdGlobals, 0,
                  World(Fetched(TRUE, QuizDocument), Fetched(TRUE, SecretDocument), GoodNet))

InitValidate ==
    /\ InitWorker /\ inflight = <<>> /\ InitRegistryIdle /\ FactoryDeployed
    /\ InitGrading \/ InitQuiz \/ InitBank \/ InitSecret \/ InitOnChain \/ InitOther
    /\ vOut = None

\* validateSubmission(context, env)
Validate ==
    /\ vOut = None
    /\ vOut' = Some(validateSubmission(vIn.context, vIn.globals, vIn.time, vIn.world))
    /\ UNCHANGED <<vIn, apiVars, regVars, factoryVars>>

SpecValidate == InitValidate /\ [][Validate]_vars

(***************************************************************************)
(* Properties of the validators (SpecValidate)                             *)
(***************************************************************************)
\* the call has returned a ValidationResult
Returned == IsSome(vOut) /\ ~Get(vOut).result.thrown
TheResult == Get(vOut).result

\* the document a loader call at vIn.time leaves in the module global: the cached one
\* while it is fresh, otherwise the one fetched
DocumentUsed(cache, fetched) ==
    IF IsSome(cache) /\ vIn.time - Get(cache).timestamp < CACHE_DURATION
    THEN Get(cache).data
    ELSE fetched.doc

\* the failures C8 calls non-recoverable
NonRecoverable ==
    \/ /\ vIn.context.submissionType = "quiz"
       /\ vIn.context.achievementNumber
              \notin DOMAIN DocumentUsed(vIn.globals.quizDataCache, vIn.world.quiz)
    \/ /\ vIn.context.submissionType = "secret"
       /\ vIn.context.achievementNumber
              \notin DOMAIN DocumentUsed(vIn.globals.secretAnswersCache, vIn.world.secret)
    \/ /\ vIn.context.submissionType = "secret"
       /\ vIn.context.achievementNumber = LAUNCH_ACHIEVEMENT
       /\ vIn.time > LAUNCH_CUTOFF

\* C8: a result with passed = true has retryAllowed = false, and so has the result of
\* every non-recoverable failure: no quiz data for the achievement, no secret configured
\* for it, the launch secret submitted after its cutoff.
C8_RetryAllowedFlag ==
    Returned =>
        /\ TheResult.passed => ~TheResult.retryAllowed
        /\ NonRecoverable => (~TheResult.passed /\ ~TheResult.retryAllowed)

\* the right launch secret, submitted after the cutoff
C8_Witness ==
    /\ Returned
    /\ vIn.context.achievementNumber = LAUNCH_ACHIEVEMENT
    /\ vIn.time > LAUNCH_CUTOFF
    /\ vIn.context.submissionData.secretAnswer = Secret(<<" ", "F", "S", " ">>)
    /\ LAUNCH_ACHIEVEMENT \in DOMAIN Get(vOut).globals.SECRET_ANSWERS
    /\ ~TheResult.passed /\ ~TheResult.retryAllowed

\* the call graded a quiz
Graded == Returned /\ vIn.context.submissionType = "quiz" /\ IsSome(TheResult.score)

\* the bank entry the quiz was graded against
GradedBank ==
    DocumentUsed(vIn.globals.quizDataCache, vIn.world.quiz)[vIn.context.achievementNumber]

\* C9: the score of a graded quiz lies between 0 and maxScore, and no interactive
\* question contributes more than its points, whatever the answers list.
C9_ScoreWithinBounds ==
    Graded =>
        /\ 0 <= Get(TheResult.score)
        /\ Get(TheResult.score) <= Whole(Get(TheResult.maxScore))
        /\ \A i \in DOMAIN GradedBank.questions :
               LET question == GradedBank.questions[i]
                   answers == Get(vIn.context.submissionData.answers)
               IN  question.ctype \in InteractiveTypes =>
                       GradeQuestion(question, SubmittedAnswer(answers, question.id)).score
                           <= Whole(question.points)

OnChain == IsSome(vOut) /\ vIn.context.submissionType \in {"transaction", "contract"}

\* the endpoint's answers to the JSON-RPC calls of the verifier the submission is
\* dispatched to, in the order the verifier makes them
CallsInOrder ==
    LET chain == vIn.world.net[vIn.context.rpcUrl]
        number == vIn.context.achievementNumber
        data == vIn.context.submissionData
    IN  IF vIn.context.submissionType = "contract" THEN <<chain.claimant, chain.storage>>
        ELSE IF number = A("0","0","0","5") /\ data.method = "factory"
        THEN <<chain.receipt>> \o chain.erc20
        ELSE IF number = A("0","0","0","5")
        THEN <<chain.receipt>> \o chain.erc20 \o <<chain.claimant>>
        ELSE IF number = A("0","0","2","5")
        THEN <<chain.receipt, chain.claimant, chain.stakingToken, chain.totalStaked>>
        ELSE IF number = A("0","0","3","3")
        THEN <<chain.receipt, chain.claimant, chain.maxSupply, chain.totalMinted>>
        ELSE IF number = A("0","0","4","3")
        THEN <<chain.receipt, chain.claimant, chain.reveal, chain.commitments>>
        ELSE <<chain.tx>>

\* the answers to the calls the validator made
CallsMade == SubSeq(CallsInOrder, 1, Get(vOut).fetches)

\* a network error or unparsable body, a non-OK status, a JSON-RPC error object, or an
\* empty result
BadRpc(r) == r.thrown \/ RpcFailed(r) \/ RpcEmpty(r)

\* C11: when a JSON-RPC call made during a transaction or contract validation fails or
\* comes back empty, the validator returns (it does not throw) a result with
\* passed = false and retryAllowed = true.
C11_RpcFailureIsRetryable ==
    (OnChain /\ \E i \in DOMAIN CallsMade : BadRpc(CallsMade[i])) =>
        /\ ~TheResult.thrown
        /\ ~TheResult.passed
        /\ TheResult.retryAllowed

(***************************************************************************)
(* Properties of the document loaders (SpecValidate)                       *)
(***************************************************************************)

\* the call was a quiz or secret validation whose loader fetched its document and the
\* fetch failed: the source was unreachable, answered non-OK, or sent no JSON
SourceFailed ==
    /\ IsSome(vOut)
    /\ Get(vOut).fetches = 1
    /\ \/ vIn.context.submissionType = "quiz" /\ ~vIn.world.quiz.ok
       \/ vIn.context.submissionType = "secret" /\ ~vIn.world.secret.ok

\* C12: when the quiz bank or the secret answers cannot be fetched during a quiz or
\* secret submission, the validator returns a retryable failure (passed = false,
\* retryAllowed = true) and throws nothing.
C12_LoaderFailureIsRetryable ==
    SourceFailed => (~TheResult.thrown /\ ~TheResult.passed /\ TheResult.retryAllowed)

(***************************************************************************)
(* The handler when one of its calls throws (SpecFault)                    *)
(***************************************************************************)

\* POST /submit during which the call `fault` throws if the handler reaches it
SubmitFaulty(req, world, fault) ==
    /\ handled < MaxRequests
    /\ LET Finish(x) == last' = x.run /\ Store(x.st)
       IN  Finish(RunToEnd([run |-> [NewRun(req) EXCEPT !.fault = fault], st |-> Shared],
                           now, world))
    /\ handled' = handled + 1
    /\ UNCHANGED <<now, inflight, pureVars, regVars, factoryVars>>

\* every payload from one wallet, and a request with a malformed wallet
FaultyRequests ==
    {Request(Some(Addr(1, "checksum")), Some(p[1]), TRUE, p[2], p[3]) : p \in Payloads}
    \cup {Request(Some(Addr(1, "malformed")), Some(A("0","0","0","1")), TRUE, "quiz",
                  QuizData(Some(AllCorrect)))}

NextFault ==
    \/ \E req \in FaultyRequests, world \in Worlds : Submit(req, world)
    \/ \E req \in FaultyRequests, world \in Worlds, fault \in Faults :
           SubmitFaulty(req, world, fault)

SpecFault == Init /\ [][NextFault]_vars

\* C13: when an exception is raised in the handler (parsing the body, reading the
\* store, validating, inserting the wallet, signing, inserting the completion), the
\* response is a 500 with success = false, the fixed error string, and no voucher,
\* signature or validation result.
C13_ExceptionGivesGeneric500 ==
    last.logged # "" =>
        /\ last.pc = "done"
        /\ last.status = 500
        /\ ~last.success
        /\ last.error = "Failed to process achievement submission"
        /\ last.voucher = None /\ last.signature = None /\ last.results = None

\* the completion insert threw after the voucher had been signed
C13_Witness ==
    /\ last.logged = "insert"
    /\ last.signs = 1
    /\ Len(signLog) > Len(completions)
    /\ last.status = 500 /\ last.signature = None

(***************************************************************************)
(* Properties of the secret validator (SpecValidate)                       *)
(***************************************************************************)

\* the call validated a secret submission and returned
SecretReturned == Returned /\ vIn.context.submissionType = "secret"

\* the answer configured for the achievement in the document the validator used,
\* <<>> when there is none
ExpectedSecret ==
    LET doc == DocumentUsed(vIn.globals.secretAnswersCache, vIn.world.secret)
    IN  IF vIn.context.achievementNumber \in DOMAIN doc
        THEN doc[vIn.context.achievementNumber] ELSE <<>>

SecretExpired ==
    vIn.context.achievementNumber = LAUNCH_ACHIEVEMENT /\ vIn.time > LAUNCH_CUTOFF

\* text is core with nothing but whitespace before and after it
Surrounded(text, core) ==
    \E i \in 0..Len(text) :
        /\ i + Len(core) <= Len(text)
        /\ SubSeq(text, i + 1, i + Len(core)) = core
        /\ \A k \in 1..Len(text) : (k <= i \/ k > i + Len(core)) => IsSpace(text[k])

\* C14: with an answer configured and the cutoff not passed, a secret submission
\* passes iff the submitted string is the expected answer, letter case included, with
\* nothing but whitespace around it; a submission that does not pass may be retried.
C14_SecretExactAfterTrim ==
    (SecretReturned /\ Len(ExpectedSecret) > 0 /\ ~SecretExpired) =>
        LET secretAnswer == vIn.context.submissionData.secretAnswer
        IN  /\ TheResult.passed <=>
                   (secretAnswer.kind = "string" /\ Surrounded(secretAnswer.text, ExpectedSecret))
            /\ ~TheResult.passed => TheResult.retryAllowed

\* the expected answer with a space on either side is accepted
C14_Witness ==
    /\ SecretReturned
    /\ ExpectedSecret = <<"F", "S">>
    /\ vIn.context.submissionData.secretAnswer = Secret(<<" ", "F", "S", " ">>)
    /\ TheResult.passed

\* C15: a submission of the launch secret after its cutoff, right or wrong, and a
\* secret submission for an achievement with no configured answer, each end in a
\* validation result with passed = false and retryAllowed = false.
C15_ExpiredOrUnconfiguredIsFinal ==
    (/\ IsSome(vOut)
     /\ vIn.context.submissionType = "secret"
     /\ SecretExpired \/ Len(ExpectedSecret) = 0) =>
        (~TheResult.thrown /\ ~TheResult.passed /\ ~TheResult.retryAllowed)

\* the same, of the calls that return a result
C15_WhenReturned ==
    (SecretReturned /\ (SecretExpired \/ Len(ExpectedSecret) = 0)) =>
        (~TheResult.passed /\ ~TheResult.retryAllowed)

(***************************************************************************)
(* The transaction-hash gate (SpecValidate)                                *)
(***************************************************************************)

\* the call validated a transaction submission
TransactionValidated == IsSome(vOut) /\ vIn.context.submissionType = "transaction"

\* "0x" followed by exactly 64 hexadecimal characters
SixtyFourHex(h) ==
    /\ Len(h) = 2 + 64
    /\ SubSeq(h, 1, 2) = <<"0", "x">>
    /\ \A i \in 3..Len(h) : h[i] \in HexDigits

\* C16: a transaction submission whose hash is not 0x followed by exactly 64 hex
\* characters gets a failure from the validator, and the validator makes no RPC call.
C16_BadHashNoRpc ==
    (TransactionValidated /\ ~SixtyFourHex(vIn.context.submissionData.transactionHash)) =>
        /\ ~TheResult.thrown
        /\ ~TheResult.passed
        /\ Get(vOut).fetches = 0

\* a hash of 65 hex characters, sent to an endpoint that knows the transaction, is
\* refused without a call
C16_Witness ==
    /\ TransactionValidated
    /\ vIn.context.submissionData.transactionHash = Hash(<<"0", "x">>, "a", 65)
    /\ vIn.world.net[vIn.context.rpcUrl].tx = OK
    /\ ~TheResult.passed /\ Get(vOut).fetches = 0

(***************************************************************************)
(* VoucherSigner (SpecSigner).  The ECDSA of the ethers library is taken   *)
(* as ideal: a signature is the key, the domain and the struct it was made *)
(* over; recovering it over the same domain and struct gives the key's     *)
(* address, and over anything else an address that belongs to nobody.      *)
(***************************************************************************)

\* ethers.verifyTypedData(domain, types, voucher, signature): [thrown, address];
\* it throws on bytes that are no signature
verifyTypedData(domain, voucher, signature) ==
    IF signature = MalformedSignature THEN [thrown |-> TRUE, address |-> Nobody]
    ELSE IF /\ signature.domain = domain
            /\ signature.taskCode = voucher.taskCode
            /\ signature.wallet.id = voucher.wallet.id
    THEN [thrown |-> FALSE, address |-> KeyAddress(signature.key)]
    ELSE [thrown |-> FALSE, address |-> Nobody]

\* a verification over a domain of another version than the one signed over
verifyVoucherOtherVersion(privateKey, contractAddress, chainId, voucher, signature) ==
    LET domain == [Domain(chainId, contractAddress) EXCEPT !.version = "2"]
        recovered == verifyTypedData(domain, voucher, signature)
    IN  [thrown |-> FALSE,
         value |-> ~recovered.thrown /\ recovered.address = KeyAddress(privateKey)]

\* new VoucherSigner(privateKey, contractAddress, chainId).verifyVoucher(voucher, signature):
\* [thrown, value]
verifyVoucher(privateKey, contractAddress, chainId, voucher, signature) ==
    LET recovered == verifyTypedData(Domain(chainId, contractAddress), voucher, signature)
    IN  [thrown |-> FALSE,
         value |-> ~recovered.thrown /\ recovered.address = KeyAddress(privateKey)]

\* a signer and a voucher
InitSigner ==
    /\ InitWorker /\ inflight = <<>> /\ InitRegistryIdle /\ FactoryDeployed
    /\ vOut = <<>>
    /\ \E key \in Keys, contract \in {CONTRACT_ADDRESS, "OtherRegistry"},
          chain \in {CHAIN_ID, MAINNET_CHAIN_ID}, t \in TaskCodes \cup {0},
          w \in {Addr(1, "checksum"), Addr(1, "lower"), Addr(2, "checksum")} :
           vIn = [privateKey |-> key, contractAddress |-> contract, chainId |-> chain,
                  voucher |-> [taskCode |-> t, wallet |-> w]]

\* signer.signVoucher(voucher)
Sign ==
    /\ vOut = <<>>
    /\ vOut' = <<signVoucher(vIn.privateKey, vIn.contractAddress, vIn.chainId, vIn.voucher)>>
    /\ UNCHANGED <<vIn, apiVars, regVars, factoryVars>>

\* signer.verifyVoucher(voucher, signature)
Verify(signature) ==
    /\ Len(vOut) = 1
    /\ vOut' = Append(vOut,
                   [signature |-> signature,
                    verified |-> verifyVoucher(vIn.privateKey, vIn.contractAddress,
                                               vIn.chainId, vIn.voucher, signature)])
    /\ UNCHANGED <<vIn, apiVars, regVars, factoryVars>>

NextSigner ==
    \/ Sign
    \/ \E signature \in {vOut[i] : i \in DOMAIN vOut} \cup Signatures : Verify(signature)

SpecSigner == InitSigner /\ [][NextSigner]_vars

VoucherSubmitted == lastCall'.n = lastCall.n + 1 /\ lastCall'.fn = "submitVoucher"

\* the signature presented in the call is a voucher signed by a key that is not on the
\* allowlist, or signed for another wallet than the sender
ForeignVoucher ==
    LET signature == Get(lastCall'.signature)
    IN  /\ signature # MalformedSignature
        /\ \/ KeyAddress(signature.key) \notin isIssuer
           \/ signature.wallet.id # lastCall'.sender

\* the call minted or set a completion flag
Minted == balances' # balances \/ completed' # completed

\* a badge is minted only for a voucher signed by an allowlisted key over the
\* registry's domain, the task code and the sender; a foreign voucher reverts and
\* changes nothing
C18_Frame ==
    VoucherSubmitted =>
        LET signature == Get(lastCall'.signature)
        IN  /\ Minted =>
                   /\ signature # MalformedSignature
                   /\ KeyAddress(signature.key) \in isIssuer
                   /\ signature.domain = Domain(CHAIN_ID, CONTRACT_ADDRESS)
                   /\ signature.taskCode = lastCall'.taskCode
                   /\ signature.wallet.id = lastCall'.sender
            /\ ForeignVoucher => (lastCall'.error # "" /\ UNCHANGED storage)

\* C18 as stated: a foreign voucher always reverts with "invalid issuer".
C18_InvalidIssuerAlways ==
    [][C18_Frame /\ ((VoucherSubmitted /\ ForeignVoucher) =>
                         lastCall'.error = "invalid issuer")]_vars

\* C18: submitVoucher mints only for a signature that recovers, over the digest of
\* (taskCode, msg.sender), to an allowlisted issuer.  A voucher of a non-allowlisted key
\* or for another wallet reverts and leaves flags and balances unchanged: with the
\* pause error while paused, with "already completed" when the sender's pair is
\* completed, and with "invalid issuer" otherwise.
C18_OnlyAllowlistedSignerMints ==
    [][C18_Frame /\ ((VoucherSubmitted /\ ForeignVoucher) =>
                         lastCall'.error =
                             IF paused THEN "paused"
                             ELSE IF <<lastCall'.sender, lastCall'.taskCode>> \in completed
                             THEN "already completed"
                             ELSE "invalid issuer")]_vars

\* an allowlisted issuer's voucher for wallet 1, submitted by wallet 2, was refused
C18_Witness ==
    /\ lastCall.fn = "submitVoucher" /\ lastCall.error = "invalid issuer"
    /\ lastCall.sender = 2
    /\ Get(lastCall.signature).wallet.id = 1
    /\ KeyAddress(Get(lastCall.signature).key) \in isIssuer
    /\ \A p \in Accounts \X TaskCodes : balances[p] = 0

(***************************************************************************)
(* Soulbound badges (SpecRegistry)                                         *)
(***************************************************************************)

\* the step is a safeTransferFrom call between two accounts
TransferAttempted == lastCall'.n = lastCall.n + 1 /\ lastCall'.fn = "safeTransferFrom"

\* every badge in a balance was minted to that wallet by its own submitVoucher
BadgesStayWithTheirWallet ==
    \A p \in Accounts \X TaskCodes : balances[p] = IF p \in completed THEN 1 ELSE 0

RowsOf(rows, wallet, number) ==
    {i \in DOMAIN rows : rows[i].wallet_address = wallet /\ rows[i].achievement_number = number}

\* C20: a well-formed request for a pair that has no passed row, however many failed
\* rows it has, is read once at the gate and dispatched to the validator; it is not
\* answered 409, and when the validator's result is passed the response is 200 with a
\* voucher and a signature.  A request is answered 409 only for a pair with a passed row.
C20_FailedAttemptsDoNotBlock ==
    [][Handled =>
           /\ (/\ ShapeError(last'.req) = ""
               /\ PassedRows(completions, WalletOf(last'.req), NumberOf(last'.req)) = {})
              => /\ last'.gateReads = 1
                 /\ last'.validatorCalls = 1
                 /\ last'.status # 409
                 /\ (IsSome(last'.results) /\ Get(last'.results).passed)
                    => /\ last'.status = 200 /\ last'.success
                       /\ IsSome(last'.voucher) /\ IsSome(last'.signature)
                       /\ Len(completions') = Len(completions) + 1
                       /\ completions'[Len(completions')].passed
           /\ last'.status = 409
              => /\ ShapeError(last'.req) = ""
                 /\ PassedRows(completions, WalletOf(last'.req), NumberOf(last'.req)) # {}]_vars

\* a pair failed an attempt, and the next attempt for the same pair was validated,
\* passed and received a voucher
C20_Witness ==
    /\ handled = 2
    /\ Len(completions) = 2
    /\ ~completions[1].passed /\ completions[2].passed
    /\ RowsOf(completions, WalletOf(last.req), NumberOf(last.req)) = {1, 2}
    /\ last.validatorCalls = 1
    /\ last.status = 200
    /\ IsSome(last.voucher) /\ last.signature = completions[2].voucher_signature
    /\ IsSome(last.signature)

(***************************************************************************)
(* Specification SpecLive: the concurrent handlers of SpecConc, with every *)
(* kind of request, where every awaited call eventually returns or fails:  *)
(* a handler that can take its next step eventually takes it.  This is     *)
(* weak fairness of each handler's Step, stated by its definition          *)
(* []<>~ENABLED <<A>>_vars \/ []<><<A>>_vars: a handler's Step is enabled   *)
(* exactly while the handler is between its request and its response      *)
(* (CanProceed below), and the steps that change inflight[h] are Receive,  *)
(* once, and Step.                                                         *)
(***************************************************************************)
LiveRequests ==
    {Request(Some(Addr(1, "checksum")), Some(A("0","0","0","1")), TRUE, "quiz",
             QuizData(Some(AllCorrect))),
     Request(Some(Addr(2, "checksum")), Some(A("1","0","0","1")), TRUE, "secret",
             SecretData(Secret(<<"F", "S">>)))}
    \cup {Request(Some(Addr(1, "checksum")), Some(A("0","0","0","5")), TRUE, "transaction",
                  TransactionData(TxHash, Some(TESTNET_CHAIN_ID), Some(Addr(1, "lower")),
                                  "deployment")),
          Request(Some(Addr(1, "malformed")), Some(A("0","0","0","1")), TRUE, "quiz",
                  QuizData(Some(AllCorrect)))}

NextLive ==
    \/ \E h \in Handlers, req \in LiveRequests : Receive(h, req)
    \/ \E h \in Handlers, world \in Worlds : Step(h, world)

SpecLive ==
    /\ InitConc /\ [][NextLive]_vars
    /\ \A h \in Handlers :
           \/ []<>(inflight[h].pc \in {"idle", "done"})
           \/ []<><<inflight'[h] # inflight[h]>>_vars

\* the most fetch calls one validation makes: the receipt, the four ERC-20 calls and
\* claimant() of verifyManualTokenDeployment
MaxFetches == 6

\* the position of a handler in the route, in the order of the code
Rank(pc) ==
    CASE pc = "idle" -> 0
      [] pc = "start" -> 1
      [] pc = "gate" -> 2
      [] pc = "validate" -> 3
      [] pc = "wallet" -> 4
      [] pc = "sign" -> 5
      [] pc = "insert" -> 6
      [] pc = "done" -> 7

\* the external calls a run has made so far are within the route's fixed number
CallsBounded(run) ==
    /\ run.gateReads <= 1 /\ run.validatorCalls <= 1 /\ run.fetches <= MaxFetches
    /\ run.walletInserts <= 1 /\ run.signs <= 1 /\ run.inserts <= 1

\* a handler between request and response can take its next step whatever the outside
\* answers, and the step moves it forward
CanProceed(h) ==
    inflight[h].pc \notin {"idle", "done"} =>
        \A world \in Worlds :
            \E x \in {Advance([run |-> inflight[h], st |-> Shared], now, world)} :
                Rank(x.run.pc) > Rank(inflight[h].pc)

\* C21: a request's handler makes at most one store read, one validator call with at
\* most MaxFetches fetches, one wallet insert, one signature and one completion insert;
\* every step moves it to a later position of the route, so nothing is polled or
\* retried and a response is never replaced; and every received request is eventually
\* responded to.
C21_TerminatesWithOneResponse ==
    /\ [](\A h \in Handlers : CallsBounded(inflight[h]) /\ CanProceed(h))
    /\ [][\A h \in Handlers :
              inflight'[h] # inflight[h] => Rank(inflight'[h].pc) > Rank(inflight[h].pc)]_vars
    /\ \A h \in Handlers :
           (inflight[h].pc \notin {"idle", "done"}) ~> (inflight[h].pc = "done")

\* a request that made the most fetches has been responded to while the other handler
\* has responded to a request whose validator threw
C21_Witness ==
    /\ inflight[1].pc = "done" /\ inflight[1].fetches = MaxFetches /\ inflight[1].status = 200
    /\ inflight[2].pc = "done" /\ inflight[2].logged = "validator" /\ inflight[2].status = 500

(***************************************************************************)
(* The quiz of achievement 0001 (SpecValidate)                             *)
(***************************************************************************)

\* accuracy = (correctCount / questions.length) * 100, in tenths of a percent
Accuracy(result) ==
    IF Get(result.totalQuestions) > 0
    THEN (Get(result.correctAnswers) * 1000) \div Get(result.totalQuestions)
    ELSE 0

\* the submission is one to Bank0001
BankSubmitted == vIn.world.quiz = Fetched(TRUE, A("0","0","0","1") :> Bank0001)

\* what was submitted: the number of traditional questions answered with the expected
\* letter, and whether the word jumble was answered with the expected word
RightAnswers ==
    Cardinality({i \in Traditional :
                     Get(vIn.context.submissionData.answers)[BankIds[i]] = PlainAnswer(<<"a">>)})
JumbleSolved ==
    Get(vIn.context.submissionData.answers)[BankIds[16]]
        = Answer("envelope", "word-jumble", "ok", <<"a", "b">>, <<>>, <<>>, <<>>)

C23_ResponseChainIsSigningChain ==
    last.success =>
        /\ IsSome(last.signature) /\ IsSome(last.chainId)
        /\ Get(last.chainId) = Get(last.signature).domain.chainId

(***************************************************************************)
(* Factory address and endpoint (Spec)                                     *)
(***************************************************************************)

\* the factory deployed on the network an endpoint serves
FactoryOn(rpcUrl) ==
    IF rpcUrl = RPC_URL_TESTNET THEN NEXT_PUBLIC_FACTORY_ADDRESS_TESTNET
    ELSE NEXT_PUBLIC_FACTORY_ADDRESS_MAINNET

\* the request handled last is a factory-method token creation that reached the validator
FactoryValidated ==
    /\ last.validatorCalls = 1
    /\ last.req.submissionType = "transaction"
    /\ AchievementOf(last) = A("0","0","0","5")
    /\ last.req.submissionData.method = "factory"

\* C24: for a factory-method submission, the factory address the receipt is compared
\* against is the factory of the network whose endpoint the router selected.
C24_FactoryMatchesEndpoint ==
    FactoryValidated =>
        FactoryAddressFor(ChainIdOrDefault(last.req.submissionData.chainId))
            = FactoryOn(last.rpcUrl)

(***************************************************************************)
(* Specification SpecCache: the sequential worker handling quiz and secret *)
(* requests, with a clock that is looked at one millisecond before each    *)
(* multiple of the cache lifetime and at the multiple itself.              *)
(***************************************************************************)
CacheRequests ==
    {Request(Some(Addr(1, "checksum")), Some(A("0","0","0","1")), TRUE, "quiz",
             QuizData(Some(AllCorrect))),
     Request(Some(Addr(2, "checksum")), Some(A("0","0","0","1")), TRUE, "quiz",
             QuizData(Some(HalfCorrect))),
     Request(Some(Addr(1, "checksum")), Some(A("1","0","0","1")), TRUE, "secret",
             SecretData(Secret(<<"F", "S">>))),
     Request(Some(Addr(2, "checksum")), Some(A("1","0","0","1")), TRUE, "secret",
             SecretData(Secret(<<"f", "s">>))),
     Request(Some(Addr(1, "checksum")), Some(A("0","0","0","5")), TRUE, "transaction",
             TransactionData(TxHash, None, Some(Addr(1, "lower")), "factory"))}

\* time passes to the next instant the clock is looked at
TickFine ==
    /\ now < MaxTicks * CACHE_DURATION
    /\ now' = IF now % CACHE_DURATION = CACHE_DURATION - 1
              THEN now + 1 ELSE now + (CACHE_DURATION - 1)
    /\ UNCHANGED <<completions, walletData, signLog, QUIZ_DATA, quizDataCache,
                   SECRET_ANSWERS, secretAnswersCache, last, handled, inflight,
                   pureVars, regVars, factoryVars>>

\* a request is handled from start to response, however many were handled before
Serve(req, world) ==
    /\ handled < MaxRequests + 1
    /\ LET Finish(x) == last' = x.run /\ Store(x.st)
       IN  Finish(RunToEnd([run |-> NewRun(req), st |-> Shared], now, world))
    /\ handled' = handled + 1
    /\ UNCHANGED <<now, inflight, pureVars, regVars, factoryVars>>

NextCache ==
    \/ \E req \in CacheRequests, world \in Worlds : Serve(req, world)
    \/ TickFine

SpecCache == Init /\ [][NextCache]_vars

(***************************************************************************)
(* The caches of the external documents (SpecCache)                        *)
(***************************************************************************)

\* a cache entry that an access at time `time` still uses
Fresh(cache, time) == IsSome(cache) /\ time - Get(cache).timestamp < CACHE_DURATION

\* the request handled in this step reached the validator of the given type
Validated(type) ==
    Handled /\ last'.validatorCalls = 1 /\ last'.req.submissionType = type

\* one access to a cache: payload and cache before, payload and cache after, what the
\* source answered if asked
Access(cache, payloadAfter, cacheAfter) ==
    /\ Fresh(cache, now) =>
           /\ last'.fetches = 0
           /\ cacheAfter = cache
           /\ payloadAfter = Get(cache).data
    /\ ~Fresh(cache, now) =>
           /\ last'.fetches = 1
           /\ cacheAfter # cache => (IsSome(cacheAfter) /\ Get(cacheAfter).timestamp = now)
    /\ IsSome(last'.results) =>
           /\ Fresh(cacheAfter, now)
           /\ payloadAfter = Get(cacheAfter).data

\* C25: an access less than CACHE_DURATION after the entry's fetch makes no fetch and
\* uses the cached payload; an access at or after expiry, or with no entry, fetches; an
\* entry is only ever written with the payload and the time of a fetch of that access;
\* and every quiz or secret validation that returns a result used a payload whose
\* fetch is less than CACHE_DURATION old.
C25_CacheTimeToLive ==
    [][/\ Validated("quiz") => Access(quizDataCache, QUIZ_DATA', quizDataCache')
       /\ Validated("secret") => Access(secretAnswersCache, SECRET_ANSWERS', secretAnswersCache')
       /\ quizDataCache' # quizDataCache => Validated("quiz")
       /\ secretAnswersCache' # secretAnswersCache => Validated("secret")]_vars

\* a quiz graded one millisecond before the cache entry expires, without a fetch
C25_Witness ==
    /\ now = CACHE_DURATION - 1
    /\ last.req.submissionType = "quiz" /\ IsSome(last.results)
    /\ last.fetches = 0
    /\ Get(quizDataCache).timestamp = 0

(***************************************************************************)
(* A re-fetch that fails (SpecValidate)                                    *)
(***************************************************************************)
\* the loader of the call finds no cache entry it may use, and its fetch fails
RefetchFails(type, cache, fetched) ==
    /\ vIn.context.submissionType = type
    /\ ~(IsSome(cache) /\ vIn.time - Get(cache).timestamp < CACHE_DURATION)
    /\ ~fetched.ok

FailedRefetch ==
    \/ RefetchFails("quiz", vIn.globals.quizDataCache, vIn.world.quiz)
    \/ RefetchFails("secret", vIn.globals.secretAnswersCache, vIn.world.secret)

\* C26: when the cache entry is absent or expired and the fetch fails, the validator
\* call ends in the loader's exception after that one fetch, so no result is computed
\* from the stale payload, and both caches and both payloads are as they were.
C26_FailedRefetchThrows ==
    (IsSome(vOut) /\ FailedRefetch) =>
        /\ Get(vOut).result = Thrown
        /\ Get(vOut).fetches = 1
        /\ Get(vOut).globals = vIn.globals

\* all answers right for the stale bank, the entry expired, the fetch fails
C26_Witness ==
    /\ IsSome(vOut)
    /\ vIn.context.submissionData.answers = Some(AllCorrect)
    /\ vIn.globals = WarmGlobals /\ vIn.time = CACHE_DURATION
    /\ ~vIn.world.quiz.ok
    /\ Get(vOut).result.thrown
    /\ Get(vOut).globals.quizDataCache = Some([data |-> QuizDocument, timestamp |-> 0])

(***************************************************************************)
(* Specification SpecLoad: quiz validations that overlap, with             *)
(* loadQuizData taken apart at its awaits.  A validation is at             *)
(*   "check"     before the cache test of loadQuizData                     *)
(*   "fetching"  awaiting fetch() and response.json()                      *)
(*   "loaded"    loadQuizData has returned, QUIZ_DATA not yet read         *)
(*   "done"      the validator has returned or thrown                      *)
(* Each records the document its own fetch returned and the one it read    *)
(* from QUIZ_DATA.                                                         *)
(***************************************************************************)
Loaders == 1..(MaxHandlers + 1)

\* quiz-data.json after a revision of the bank
RevisedDocument == A("0","0","0","1") :> [questions |-> <<Q1, Q2>>, passingScore |-> 50]

LoadDocuments ==
    {Fetched(TRUE, QuizDocument), Fetched(TRUE, RevisedDocument), NoDocument}

LoadContext == Context(A("0","0","0","1"), Submitter, "quiz", QuizData(Some(HalfCorrect)))

NoLoad ==
    [pc |-> "idle", fetches |-> 0, fetched |-> None, read |-> None, result |-> None]

\* the entry written after a successful fetch
CacheEntryAtStart(data, time) == [data |-> data, timestamp |-> 0]
CacheEntry(data, time) == [data |-> data, timestamp |-> time]

InitLoad ==
    /\ InitWorker /\ InitPure /\ InitRegistryIdle /\ FactoryDeployed
    /\ inflight = [h \in Loaders |-> NoLoad]

LoadFrame == UNCHANGED <<completions, walletData, signLog, SECRET_ANSWERS, secretAnswersCache,
                         now, last, handled, pureVars, regVars, factoryVars>>

\* validateQuizSubmission is called
Enter(h) ==
    /\ inflight[h].pc = "idle"
    /\ inflight' = [inflight EXCEPT ![h].pc = "check"]
    /\ UNCHANGED <<QUIZ_DATA, quizDataCache>>
    /\ LoadFrame

\* loadQuizData up to its return from the cache or its first await
Check(h) ==
    /\ inflight[h].pc = "check"
    /\ IF IsSome(quizDataCache) /\ now - Get(quizDataCache).timestamp < CACHE_DURATION
       THEN /\ QUIZ_DATA' = Get(quizDataCache).data
            /\ inflight' = [inflight EXCEPT ![h].pc = "loaded"]
       ELSE /\ QUIZ_DATA' = QUIZ_DATA
            /\ inflight' = [inflight EXCEPT ![h].pc = "fetching", ![h].fetches = @ + 1]
    /\ UNCHANGED quizDataCache
    /\ LoadFrame

\* loadQuizData from the answer to its fetch to its end
FetchReturns(h, fetched) ==
    /\ inflight[h].pc = "fetching"
    /\ IF fetched.ok
       THEN /\ QUIZ_DATA' = fetched.doc
            /\ quizDataCache' = Some(CacheEntry(fetched.doc, now))
            /\ inflight' = [inflight EXCEPT
                               ![h].pc = "loaded",
                               ![h].fetched = Some([data |-> fetched.doc, timestamp |-> now])]
       ELSE /\ UNCHANGED <<QUIZ_DATA, quizDataCache>>
            /\ inflight' = [inflight EXCEPT ![h].pc = "done", ![h].result = Some(Thrown)]
    /\ LoadFrame

\* validateQuizSubmission after the await of loadQuizData
Grade(h) ==
    /\ inflight[h].pc = "loaded"
    /\ inflight' = [inflight EXCEPT
                       ![h].pc = "done",
                       ![h].read = Some(QUIZ_DATA),
                       ![h].result = Some(QuizResult(QUIZ_DATA, LoadContext.submissionData,
                                                     LoadContext))]
    /\ UNCHANGED <<QUIZ_DATA, quizDataCache>>
    /\ LoadFrame

NextLoad ==
    \/ \E h \in Loaders : Enter(h) \/ Check(h) \/ Grade(h)
    \/ \E h \in Loaders, fetched \in LoadDocuments : FetchReturns(h, fetched)
    \/ Tick

SpecLoad == InitLoad /\ [][NextLoad]_vars

\* the entries written by the fetches that have succeeded so far
FetchedEntries == {Get(inflight[g].fetched) : g \in {f \in Loaders : IsSome(inflight[f].fetched)}}

\* the validation of h returned a result
Resulted(h) == IsSome(inflight[h].result) /\ ~Get(inflight[h].result).thrown

\* C27: validations that find the cache cold or expired each make their own fetch,
\* whatever the others are doing; every validation that returns a result read one whole
\* document that some successful fetch returned and was graded against it; and the
\* cache, once any fetch has succeeded, holds the document of one successful fetch with
\* the time that fetch returned.
C27_RedundantFetchesOnly ==
    /\ [](\A h \in Loaders :
              Resulted(h) =>
                  /\ \E e \in FetchedEntries : Get(inflight[h].read) = e.data
                  /\ Get(inflight[h].result) =
                         QuizResult(Get(inflight[h].read), LoadContext.submissionData, LoadContext))
    /\ [](IF FetchedEntries = {} THEN quizDataCache = None
          ELSE IsSome(quizDataCache) /\ Get(quizDataCache) \in FetchedEntries)
    /\ [][\A h \in Loaders :
              (inflight[h].pc = "check" /\ inflight'[h] # inflight[h]) =>
                  IF IsSome(quizDataCache) /\ now - Get(quizDataCache).timestamp < CACHE_DURATION
                  THEN inflight'[h].pc = "loaded" /\ inflight'[h].fetches = 0
                  ELSE inflight'[h].pc = "fetching" /\ inflight'[h].fetches = 1]_vars

\* two validations found the cache expired, each fetched, the fetches returned different
\* documents, and the one that fetched the bank passing at 80 was graded against the other
C27_Witness ==
    /\ now = CACHE_DURATION
    /\ inflight[3].fetched = Some([data |-> QuizDocument, timestamp |-> 0])
    /\ Resulted(1) /\ Resulted(2)
    /\ inflight[1].fetched = Some([data |-> QuizDocument, timestamp |-> CACHE_DURATION])
    /\ inflight[2].fetched = Some([data |-> RevisedDocument, timestamp |-> CACHE_DURATION])
    /\ Get(inflight[1].read) = RevisedDocument
    /\ Get(inflight[1].result).passed
    /\ quizDataCache = inflight[2].fetched

(***************************************************************************)
(* Degenerate expected answers and the positional graders (SpecValidate)   *)
(***************************************************************************)
\* a quiz of the traditional question Q1 and one interactive question was graded
GradedPair ==
    /\ Graded
    /\ Len(GradedBank.questions) = 2
    /\ GradedBank.questions[1] = Q1
    /\ GradedBank.questions[2].ctype \in InteractiveTypes

SecondQuestion == GradedBank.questions[2]
SecondAnswer == SubmittedAnswer(Get(vIn.context.submissionData.answers), SecondQuestion.id)

\* what the second question added to the score
SecondScore ==
    Get(TheResult.score)
        - GradeQuestion(Q1, SubmittedAnswer(Get(vIn.context.submissionData.answers), Q1.id)).score

\* the expected answer of the question is empty
ExpectedEmpty(question) ==
    CASE question.ctype = "word-jumble" -> Len(question.text) = 0
      [] question.ctype = "concept-matching" -> Len(question.pairs) = 0
      [] question.ctype = "true-false-statements" -> Len(question.classifications) = 0
      [] OTHER -> Len(question.sequence) = 0

\* the share of the expected positions that the submitted sequence fills correctly
PositionalScore(userSequence, correctSequence, points) ==
    LET shorter == IF Len(userSequence) < Len(correctSequence)
                   THEN Len(userSequence) ELSE Len(correctSequence)
        matching == {i \in 1..shorter : userSequence[i] = correctSequence[i]}
    IN  (Cardinality(matching) * points * ScoreDen) \div Len(correctSequence)

\* C28: an interactive question whose expected answer is empty (word, pair list,
\* sequence, classification list) adds 0 to the score whatever is submitted; timeline
\* builder and drag-drop compare the positions below the shorter of the two lengths and
\* divide the matches by the expected length.
C28_EmptyExpectedScoresZero ==
    GradedPair =>
        /\ ExpectedEmpty(SecondQuestion) => SecondScore = 0
        /\ (/\ SecondQuestion.ctype \in {"timeline-builder", "drag-drop-puzzle"}
            /\ ~ExpectedEmpty(SecondQuestion)
            /\ SecondAnswer.kind = "envelope" /\ SecondAnswer.type = SecondQuestion.ctype
            /\ SecondAnswer.resp = "ok")
               => SecondScore = PositionalScore(SecondAnswer.sequence, SecondQuestion.sequence,
                                                SecondQuestion.points)

(***************************************************************************)
(* Bad answers (SpecValidate)                                              *)
(***************************************************************************)
\* the call is a quiz validation that reaches the loop over the questions
GradingReached ==
    /\ IsSome(vOut)
    /\ vIn.context.submissionType = "quiz"
    /\ IsSome(vIn.context.submissionData.answers)
    /\ ~FailedRefetch
    /\ vIn.context.achievementNumber
           \in DOMAIN DocumentUsed(vIn.globals.quizDataCache, vIn.world.quiz)

\* the answers C29 calls bad, for the question they are given to
BadAnswer(question, answer) ==
    \/ answer.kind = "missing"
    \/ answer.kind = "envelope" /\ question.ctype \in InteractiveTypes
           /\ answer.type # question.ctype
    \/ answer.kind = "badjson"
    \/ answer.kind = "plain" /\ question.ctype \in InteractiveTypes
    \/ answer.kind = "nonstring"

\* the score when every bad answer counts 0 and every other answer what its grader gives
RECURSIVE ScoreSkippingBad(_, _)
ScoreSkippingBad(questions, answers) ==
    IF Len(questions) = 0 THEN 0
    ELSE (IF BadAnswer(questions[1], SubmittedAnswer(answers, questions[1].id)) THEN 0
          ELSE GradeQuestion(questions[1], SubmittedAnswer(answers, questions[1].id)).score)
         + ScoreSkippingBad(Tail(questions), answers)

\* C29: a quiz validation that reaches the loop over the questions returns a result,
\* whatever the answers are: a missing answer, an envelope of another type than the
\* question's, an envelope that is not JSON, a plain string for an interactive question
\* and a value that is not a string each add 0, and the other questions are graded.
C29_BadAnswersScoreZero ==
    GradingReached =>
        /\ Returned
        /\ Get(TheResult.score) =
               ScoreSkippingBad(GradedBank.questions, Get(vIn.context.submissionData.answers))

(***************************************************************************)
(* Monotonic partial credit (SpecValidate)                                 *)
(***************************************************************************)
ReplaceAt(seq, i, x) == [seq EXCEPT ![i] = x]

\* the pair lists that differ from `pairs` in one pair, which was not an expected pair
\* or was not there and is now an expected pair
BetterPairs(question, pairs) ==
    LET expected == {question.pairs[j] : j \in DOMAIN question.pairs}
        wrong == {i \in DOMAIN pairs : pairs[i] \notin expected}
    IN  {ReplaceAt(pairs, i, p) : i \in wrong, p \in expected}
        \cup {Append(pairs, p) : p \in expected}

\* the sequences that differ from `sequence` in one position, which did not hold the
\* expected item or was not there and now holds the expected item
BetterSequences(question, sequence) ==
    LET wrong == {i \in DOMAIN sequence :
                     i <= Len(question.sequence) /\ sequence[i] # question.sequence[i]}
    IN  {ReplaceAt(sequence, i, question.sequence[i]) : i \in wrong}
        \cup (IF Len(sequence) < Len(question.sequence)
              THEN {Append(sequence, question.sequence[Len(sequence) + 1])}
              ELSE {})

\* the classification lists that differ from `classifications` in one entry, which did
\* not give its statement the expected answer or was not there and now does
BetterClassifications(question, classifications) ==
    LET expected == question.classifications
        right == {expected[j] : j \in {k \in DOMAIN expected :
                                          \A l \in 1..(k - 1) : expected[l][1] # expected[k][1]}}
        wrong == {i \in DOMAIN classifications : classifications[i] \notin right}
    IN  {ReplaceAt(classifications, i, c) : i \in wrong, c \in right}
        \cup {Append(classifications, c) : c \in right}

\* the answers that differ from `answer` by one such change
Improvements(question, answer) ==
    LET read == [answer EXCEPT !.resp = "ok"]
    IN  CASE question.ctype = "concept-matching" ->
                 {[read EXCEPT !.pairs = p] : p \in BetterPairs(question, read.pairs)}
          [] question.ctype = "true-false-statements" ->
                 {[read EXCEPT !.classifications = c] :
                      c \in BetterClassifications(question, read.classifications)}
          [] OTHER ->
                 {[read EXCEPT !.sequence = s] : s \in BetterSequences(question, read.sequence)}

\* the second question is one of the four graders with partial credit and its answer an
\* envelope of the question's type whose userResponse is a list or is missing
PartialCreditGraded ==
    /\ GradedPair
    /\ SecondQuestion.ctype \in InteractiveTypes \ {"word-jumble"}
    /\ SecondAnswer.kind = "envelope" /\ SecondAnswer.type = SecondQuestion.ctype
    /\ SecondAnswer.resp \in {"ok", "absent"}

\* C30: in concept matching, timeline builder, true/false and drag-drop, making one
\* incorrect or missing pair, position or classification correct and leaving the rest
\* of the submission as it is never lowers the score of the question.
C30_PartialCreditMonotonic ==
    PartialCreditGraded =>
        \A better \in Improvements(SecondQuestion, SecondAnswer) :
            GradeQuestion(SecondQuestion, better).score >= SecondScore

\* a submission with the wrong answer to statement 1 and another to an unknown statement,
\* which one change lifts from 0 to half the points
C30_Witness ==
    /\ PartialCreditGraded
    /\ SecondQuestion.classifications = CanonClassifications(2)
    /\ SecondAnswer.classifications = <<<<1, FALSE>>, <<2, TRUE>>>>
    /\ SecondScore = 0
    /\ \E better \in Improvements(SecondQuestion, SecondAnswer) :
           GradeQuestion(SecondQuestion, better).score = Whole(3)

(***************************************************************************)
(* Token creation through the factory (SpecValidate)                       *)
(***************************************************************************)
\* the chain behind the endpoint the context names
TheChain == vIn.world.net[vIn.context.rpcUrl]

\* the call validated a transaction submission with a well-formed hash for the given
\* achievement
TransactionFor(number) ==
    /\ TransactionValidated
    /\ vIn.context.achievementNumber = number
    /\ TxIdPatternTest(vIn.context.submissionData.transactionHash)

FactoryCase ==
    /\ TransactionFor(A("0","0","0","5"))
    /\ vIn.context.submissionData.method \in {"", "factory"}

\* the submission names a claimant, and it is the submitting wallet in either letter case
ClaimantIsWallet ==
    LET claimantAddress == vIn.context.submissionData.claimantAddress
    IN  /\ IsSome(claimantAddress)
        /\ Get(claimantAddress).form \in {"lower", "checksum", "badsum"}
        /\ Get(claimantAddress).id = vIn.context.walletAddress.id

\* the receipt call is answered with a receipt of a successful transaction
ReceiptSucceeded ==
    /\ ~BadRpc(TheChain.receipt) /\ TheChain.receipt.result = "data"
    /\ TheChain.status = "0x1"

\* the number of calls verifyERC20Token makes: up to the first that fails or is empty
TokenCalls ==
    LET bad == {k \in 1..4 : BadRpc(TheChain.erc20[k])}
    IN  IF bad = {} THEN 4 ELSE CHOOSE k \in bad : \A l \in bad : k <= l

\* name, symbol, decimals and totalSupply are answered, name and symbol not empty
TokenAnswers ==
    /\ \A k \in 1..4 : ~BadRpc(TheChain.erc20[k])
    /\ \A k \in 1..2 : TheChain.erc20[k].result \notin {"blank", "zero32"}

\* the checks of a factory submission, in the order C31 lists them
FactoryChecks ==
    <<vIn.context.submissionData.method # "" /\ ClaimantIsWallet,
      ReceiptSucceeded,
      Some(TheChain.to) = (IF vIn.context.submissionData.chainId \in {None, Some(TESTNET_CHAIN_ID)}
                           THEN NEXT_PUBLIC_FACTORY_ADDRESS_TESTNET
                           ELSE NEXT_PUBLIC_FACTORY_ADDRESS_MAINNET),
      TheChain.log # "none",
      TheChain.log = "event" /\ TheChain.logCreator = vIn.context.walletAddress.id,
      TokenAnswers>>

\* the first check of the list that fails, one past the list's end when none does
FirstFailure(checks) ==
    LET failed == {i \in DOMAIN checks : ~checks[i]}
    IN  IF failed = {} THEN Len(checks) + 1 ELSE CHOOSE i \in failed : \A j \in failed : i <= j

\* C31: a factory submission for achievement 0005 passes iff a method is declared and
\* the claimant is the submitting wallet, the receipt exists with success status, it
\* targeted the factory address, a token-creation log is present, the creator in the log
\* is the submitting wallet, and the token answers name, symbol, decimals and totalSupply
\* with name and symbol not empty; the checks are made in that order and the first that
\* fails ends the validation: no call is made after it.
C31_FactoryChecksInOrder ==
    FactoryCase =>
        LET first == FirstFailure(FactoryChecks)
        IN  /\ TheResult.passed <=> first = 7
            /\ Get(vOut).fetches = (CASE first = 1 -> 0
                                      [] first \in 2..5 -> 1
                                      [] OTHER -> 1 + TokenCalls)

\* a token created through the mainnet factory, with all five calls made
C31_Witness ==
    /\ FactoryCase
    /\ vIn.context.submissionData.chainId = Some(MAINNET_CHAIN_ID)
    /\ TheChain.to = "FactoryMainnet"
    /\ TheResult.passed
    /\ Get(vOut).fetches = 5

(***************************************************************************)
(* Deployed contracts: manual token, staking, NFT collection (SpecValidate)*)
(***************************************************************************)
\* a deployment-style submission that reaches its verifier
DeploymentCase ==
    /\ ClaimantIsWallet
    /\ \/ TransactionFor(A("0","0","0","5")) /\ vIn.context.submissionData.method = "deployment"
       \/ TransactionFor(A("0","0","2","5"))
       \/ TransactionFor(A("0","0","3","3"))

\* the receipt is of a successful transaction that created a contract
ContractCreated == ReceiptSucceeded /\ TheChain.contractAddress

\* claimant() is answered with the submitting wallet
ClaimantAnswers ==
    /\ ~BadRpc(TheChain.claimant) /\ TheChain.claimant.result = "data"
    /\ TheChain.claimantIs = vIn.context.walletAddress.id

\* the checks of the verifier the submission goes to, in the order it makes them, and
\* the number of calls made when the i-th is the first to fail (the last entry: when
\* none fails)
DeploymentChecks ==
    CASE vIn.context.achievementNumber = A("0","0","0","5") ->
             <<ContractCreated, TokenAnswers, ClaimantAnswers>>
      [] vIn.context.achievementNumber = A("0","0","2","5") ->
             <<ContractCreated, ClaimantAnswers,
               ~BadRpc(TheChain.stakingToken), ~BadRpc(TheChain.totalStaked)>>
      [] OTHER ->
             <<ContractCreated, ClaimantAnswers,
               ~BadRpc(TheChain.maxSupply), ~BadRpc(TheChain.totalMinted)>>

DeploymentCalls ==
    IF vIn.context.achievementNumber = A("0","0","0","5")
    THEN <<1, 1 + TokenCalls, 6, 6>>
    ELSE <<1, 2, 3, 4, 4>>

\* C32: a manual token, staking or NFT collection submission passes iff the receipt is
\* of a successful transaction that created a contract, claimant() returns the
\* submitting wallet, and the achievement's probes (the ERC-20 calls; stakingToken() and
\* totalStaked(); MAX_SUPPLY() and totalMinted()) are answered and not empty; a check
\* that fails gives passed = false with retryAllowed = true, and no call is made after it.
C32_DeploymentChecks ==
    DeploymentCase =>
        LET first == FirstFailure(DeploymentChecks)
        IN  /\ Returned
            /\ TheResult.passed <=> first = Len(DeploymentChecks) + 1
            /\ ~TheResult.passed => TheResult.retryAllowed
            /\ Get(vOut).fetches = DeploymentCalls[first]

\* a staking contract without stakingToken(): three calls, totalStaked() is not asked
C32_Witness ==
    /\ DeploymentCase
    /\ vIn.context.achievementNumber = A("0","0","2","5")
    /\ TheChain.stakingToken.result = "0x"
    /\ ~TheResult.passed /\ TheResult.retryAllowed
    /\ Get(vOut).fetches = 3

(***************************************************************************)
(* Random number generator (SpecValidate)                                  *)
(***************************************************************************)
\* the answer to the reveal() call says that the function does not exist
RevealMissing == ~TheChain.reveal.thrown /\ TheChain.reveal.err = "does not exist"

\* the commitments() call fails: no answer, a non-OK status or a JSON-RPC error
CommitmentsFailed == TheChain.commitments.thrown \/ RpcFailed(TheChain.commitments)

\* C33: a random number generator submission (0043) does not pass when the answer to
\* the reveal() call reports the function as missing, be it with a non-OK status or as a
\* JSON-RPC error in an OK response, nor when the commitments() call fails.
C33_RngNeedsRevealAndCommitments ==
    (TransactionFor(A("0","0","4","3")) /\ (RevealMissing \/ CommitmentsFailed)) =>
        ~TheResult.passed

(***************************************************************************)
(* The generic transaction check (SpecValidate)                            *)
(***************************************************************************)
\* a transaction submission for an achievement without a verifier of its own
GenericCase == TransactionFor(A("0","0","0","2"))

EndpointOf(chainId) ==
    IF chainId = Some(33101) THEN "testnet"
    ELSE IF chainId = Some(32769) THEN "mainnet"
    ELSE "testnet"

\* the world in which both endpoints serve what `endpoint` serves
OnlyEndpoint(world, endpoint) ==
    [world EXCEPT !.net = [testnet |-> world.net[endpoint], mainnet |-> world.net[endpoint]]]

\* C35: for a transaction or contract submission the validator is handed the testnet
\* endpoint for chain id 33101, the mainnet endpoint for 32769 and the testnet endpoint
\* for every other or no chain id, and every RPC call of the validation is answered by
\* that endpoint: what the other endpoint would answer changes nothing.
C35_SingleEndpointByChainId ==
    OnChain =>
        LET endpoint == EndpointOf(vIn.context.submissionData.chainId)
        IN  /\ vIn.context.rpcUrl = endpoint
            /\ Get(vOut) = validateSubmission(vIn.context, vIn.globals, vIn.time,
                                              OnlyEndpoint(vIn.world, endpoint))

\* an unrecognized chain id while the mainnet endpoint is down: the deployed token is
\* verified with six calls to the testnet endpoint
C35_Witness ==
    /\ OnChain
    /\ vIn.context.submissionData.chainId = Some(1)
    /\ vIn.context.achievementNumber = A("0","0","0","5")
    /\ vIn.context.submissionData.method = "deployment"
    /\ vIn.world.net.mainnet = DeadChain
    /\ TheResult.passed
    /\ Get(vOut).fetches = 6

(***************************************************************************)
(* The achievement index of the registry (SpecRegistry)                    *)
(***************************************************************************)
\* the ids a list holds
Listed(list) == {list[i] : i \in DOMAIN list}

\* C36: in every reachable state, for every wallet and token id, hasAchievement is true
\* iff the balance is positive iff the completion flag is set, and
\* getWalletAchievements lists exactly those ids, each once.
C36_IndexMatchesBalances ==
    \A wallet \in Accounts :
        /\ \A id \in TaskCodes :
               /\ hasAchievement(wallet, id) <=> balanceOf(wallet, id) > 0
               /\ hasAchievement(wallet, id) <=> IsCompleted(completed, wallet, id)
        /\ Listed(getWalletAchievements(wallet)) = {id \in TaskCodes : hasAchievement(wallet, id)}
        /\ Cardinality(Listed(getWalletAchievements(wallet))) = Len(getWalletAchievements(wallet))

\* wallet 1 holds both badges, minted in the order 5, 1, and a transfer was attempted last
C36_Witness ==
    /\ getWalletAchievements(1) = <<5, 1>>
    /\ getWalletAchievements(2) = <<>>
    /\ balanceOf(1, 5) = 1 /\ balanceOf(1, 1) = 1 /\ balanceOf(2, 5) = 0
    /\ lastCall.fn = "safeTransferFrom"

(***************************************************************************)
(* The gate and the letter case of the wallet address (Spec)               *)
(***************************************************************************)
\* the rows hold a passed completion of the achievement for the 20 bytes of the wallet,
\* in whatever letter case
PassedBefore(rows, walletAddress, number) ==
    \E i \in DOMAIN rows :
        /\ rows[i].passed
        /\ rows[i].wallet_address.id = walletAddress.id
        /\ rows[i].achievement_number = number

\* C37: a well-formed request for an achievement that the same address, in either letter
\* case, has a passed completion of is answered 409 without validation and stores
\* nothing; and all rows of one address carry the same, checksummed, form of it.
C37_GateIgnoresLetterCase ==
    /\ [][(/\ Handled
           /\ ShapeError(last'.req) = ""
           /\ PassedBefore(completions, Get(last'.req.walletAddress), NumberOf(last'.req)))
          => /\ last'.status = 409
             /\ last'.validatorCalls = 0
             /\ StoreUnchanged]_vars
    /\ [](\A i \in DOMAIN completions :
              /\ completions[i].wallet_address.form = "checksum"
              /\ \A j \in DOMAIN completions :
                     completions[i].wallet_address.id = completions[j].wallet_address.id
                         => completions[i].wallet_address = completions[j].wallet_address)

\* the address passed, and its all-lowercase form is answered 409
C37_Witness ==
    /\ handled = 2
    /\ last.req.walletAddress = Some(Addr(1, "lower"))
    /\ last.status = 409
    /\ Len(completions) = 1
    /\ completions[1].passed /\ completions[1].wallet_address = Addr(1, "checksum")

(***************************************************************************)
(* The registry's admin state at call time (SpecRegistry)                  *)
(***************************************************************************)
\* the voucher presented in this step was signed with a key that is not on the
\* allowlist now
SignerNotAllowed ==
    /\ IsSome(lastCall'.signature)
    /\ KeyAddress(Get(lastCall'.signature).key) \notin isIssuer

\* C38: a submitVoucher call made while the registry is paused reverts, and so does one
\* presenting a voucher whose signer is not on the allowlist at the time of the call,
\* whatever the allowlist was when the voucher was signed; the allowlist and the paused
\* flag change only in calls of setIssuer, pause and unpause sent by the owner.
C38_AdminStateGatesRedemption ==
    [][/\ (VoucherSubmitted /\ (paused \/ SignerNotAllowed))
          => (lastCall'.error # "" /\ UNCHANGED storage)
       /\ isIssuer' # isIssuer => (lastCall'.fn = "setIssuer" /\ lastCall'.sender = OWNER)
       /\ paused' # paused => (lastCall'.fn \in {"pause", "unpause"} /\ lastCall'.sender = OWNER)]_vars

\* wallet 1 redeemed a voucher of the issuer, the issuer was removed, and wallet 2's
\* voucher of the same issuer is rejected
C38_Witness ==
    /\ lastCall.n = 4
    /\ completed = {<<1, 1>>}
    /\ isIssuer = {}
    /\ lastCall.fn = "submitVoucher" /\ lastCall.sender = 2
    /\ lastCall.signature =
           Some(signVoucher(ISSUER_PRIVATE_KEY, CONTRACT_ADDRESS, CHAIN_ID,
                            [taskCode |-> 1, wallet |-> Addr(2, "checksum")]))
    /\ lastCall.error = "invalid issuer"

(***************************************************************************)
(* The token factory's accounting (SpecFactory)                            *)
(***************************************************************************)
TokenNames == {<<>>, <<"M", "y">>}
TokenSymbols == {<<>>, <<"M", "F", "T">>}
Supplies == {0, 1, MAX_INITIAL_SUPPLY, MAX_INITIAL_SUPPLY + 1}

InitFactory == InitWorker /\ inflight = <<>> /\ InitPure /\ InitRegistryIdle /\ FactoryDeployed

\* one createToken transaction sent to the factory
NextFactory ==
    \E sender \in Creators, name \in TokenNames, symbol \in TokenSymbols,
       initialSupply \in Supplies, constructed \in BOOLEAN :
        /\ factoryCall.n < MaxCalls
        /\ createToken(sender, name, symbol, initialSupply, constructed)
        /\ UNCHANGED <<apiVars, pureVars, regVars>>

SpecFactory == InitFactory /\ [][NextFactory]_vars

RECURSIVE SumOfLengths(_)
\* the sum over the given users of the length of getUserTokens(user)
SumOfLengths(users) ==
    IF users = {} THEN 0
    ELSE LET u == CHOOSE x \in users : TRUE
         IN  Len(getUserTokens(u)) + SumOfLengths(users \ {u})

\* the addresses announced by the events of the given list, in order
AddressesOf(events) == [i \in DOMAIN events |-> events[i].tokenAddress]

\* the tokens the user created, oldest first
CreatedBy(user) == AddressesOf(SelectSeq(TokenCreated, LAMBDA e : e.creator = user))

\* the arguments of the call made in this step are not acceptable
InvalidArguments ==
    \/ factoryCall'.name = <<>>
    \/ factoryCall'.symbol = <<>>
    \/ factoryCall'.initialSupply \notin 1..MAX_INITIAL_SUPPLY

\* C39: totalTokensCreated starts at zero, grows by exactly one in a createToken call that
\* returns and stays in one that reverts, so it is the number of successful calls; it
\* always equals the length of allTokens and the sum over the users of the length of
\* getUserTokens(user); a user's list holds the tokens that user created, in creation
\* order; a call with an empty name, an empty symbol or a supply outside 1..1,000,000,000
\* reverts and changes none of them.
C39_FactoryAccounting ==
    /\ [](/\ totalTokensCreated = Len(allTokens)
          /\ totalTokensCreated = SumOfLengths(Creators)
          /\ totalTokensCreated = Len(TokenCreated)
          /\ allTokens = AddressesOf(TokenCreated)
          /\ \A i, j \in DOMAIN allTokens : i # j => allTokens[i] # allTokens[j]
          /\ \A u \in Creators : getUserTokens(u) = CreatedBy(u))
    /\ [][/\ factoryCall'.error = "" =>
                 /\ totalTokensCreated' = totalTokensCreated + 1
                 /\ IsSome(factoryCall'.returned)
                 /\ allTokens' = Append(allTokens, Get(factoryCall'.returned))
                 /\ userTokens'[factoryCall'.sender] =
                        Append(getUserTokens(factoryCall'.sender), Get(factoryCall'.returned))
          /\ factoryCall'.error # "" =>
                 UNCHANGED <<totalTokensCreated, userTokens, allTokens, TokenCreated>>
          /\ InvalidArguments => factoryCall'.error # ""]_vars

\* the two users' creations interleave, and a fourth call asking for one token more than
\* the limit was reverted
C39_Witness ==
    /\ totalTokensCreated = 3
    /\ allTokens = <<1, 2, 3>>
    /\ getUserTokens(1) = <<1, 3>>
    /\ getUserTokens(2) = <<2>>
    /\ factoryCall.n = 4
    /\ factoryCall.initialSupply = MAX_INITIAL_SUPPLY + 1
    /\ factoryCall.error = "Invalid supply"

====
